---- MODULE Spec2Model ----
(***************************************************************************)
(* json-table-viewer, src/app/page.tsx: the table builder                  *)
(* (getTableStructure), the shape predicates and the recursive renderers   *)
(* (renderCellWithNestedArrays / renderCellValue / renderNestedTable /     *)
(* renderCollapsibleTable and the output section of Home).                 *)
(*                                                                         *)
(* A JSON text is a tree whose object members are in document order; a     *)
(* parsed value is the JavaScript value JSON.parse builds from it, whose   *)
(* object properties are in own-property order.  Both are records          *)
(*   [t |-> type tag, s |-> String(value) of a scalar, c |-> members]      *)
(* with c a sequence of [k |-> key, v |-> value]; an array's members have  *)
(* the keys "0", "1", ...                                                  *)
(***************************************************************************)
EXTENDS Integers, Sequences, FiniteSets, TLC

VARIABLES
  source,          \* the JSON text handed to JSON.parse (members in document order)
  data,            \* the parsed value an operation is applied to
  excludeKeys,     \* getTableStructure's second argument
  collapsedTables, \* page.tsx:9, the set of collapsed table identifiers
  table,           \* the grid returned by getTableStructure (NoTable before the call)
  view,            \* the element tree returned by the last render (NoView before it)
  clipboard,       \* what copyRecord wrote to the clipboard (NoCopy before a copy)
  csv,             \* the outcome of the last exportToCSV call (NoExport before it)
  depth,           \* the result of getDepth(parsedData) (NoDepth before the call)
  jsonInput,       \* page.tsx:7, the text of the input area, in code units
  error,           \* page.tsx:8, the message shown below the input (NoError: null)
  reads,           \* the files whose FileReader reads have not completed yet
  timers,          \* the pending timeouts of copyRecord, named by the copy that set them
  toggles          \* how often toggleTable was called with each identifier

vars ==
  <<source, data, excludeKeys, collapsedTables, table, view, clipboard, csv, depth,
    jsonInput, error, reads, timers, toggles>>

(***************************************************************************)
(* Bounds of the model.                                                    *)
(***************************************************************************)
\* longest array of records / members drawn for an input
MaxItems == 2
\* most table identifiers collapsed at once
MaxCollapsed == 1
\* the longest array that is exported
MaxExported == 2
\* toggleTable is called at most this often with one identifier
MaxToggles == 2
\* at most this many records are copied
MaxCopies == 2
\* at most this many file reads are in flight
MaxReads == 1

(***************************************************************************)
(* Strings.  JavaScript compares strings by UTF-16 code units; the keys    *)
(* the inputs use are spelled out here so that the comparison is computed. *)
(***************************************************************************)
CodeUnits(k) ==
  CASE k = "0" -> <<48>>
    [] k = "1" -> <<49>>
    [] k = "2" -> <<50>>
    [] k = "3" -> <<51>>
    [] k = "10" -> <<49, 48>>
    [] k = "Index" -> <<73, 110, 100, 101, 120>>
    [] k = "Key" -> <<75, 101, 121>>
    [] k = "Name" -> <<78, 97, 109, 101>>
    [] k = "Packages" -> <<80, 97, 99, 107, 97, 103, 101, 115>>
    [] k = "Results" -> <<82, 101, 115, 117, 108, 116, 115>>
    [] k = "Value" -> <<86, 97, 108, 117, 101>>
    [] k = "Vulnerabilities" ->
         <<86, 117, 108, 110, 101, 114, 97, 98, 105, 108, 105, 116, 105, 101, 115>>
    [] k = "a" -> <<97>>
    [] k = "b" -> <<98>>
    [] k = "cfg" -> <<99, 102, 103>>
    [] k = "n" -> <<110>>
    [] k = "toString" -> <<116, 111, 83, 116, 114, 105, 110, 103>>
    [] k = "x" -> <<120>>
    [] k = "" -> <<>>
    [] k = "7" -> <<55>>
    [] k = "c" -> <<99>>
    [] k = "null" -> <<110, 117, 108, 108>>
    [] k = "undefined" -> <<117, 110, 100, 101, 102, 105, 110, 101, 100>>
    [] k = "true" -> <<116, 114, 117, 101>>
    [] k = "false" -> <<102, 97, 108, 115, 101>>
    [] k = "a.b" -> <<97, 46, 98>>
    [] k = "a,b" -> <<97, 44, 98>>
    [] k = "x,y" -> <<120, 44, 121>>
    [] k = "q\"q" -> <<113, 34, 113>>
    [] k = "l\nl" -> <<108, 10, 108>>
    [] k = "__proto__" -> <<95, 95, 112, 114, 111, 116, 111, 95, 95>>
    [] k = "function toString() { [native code] }" ->
         <<102, 117, 110, 99, 116, 105, 111, 110, 32, 116, 111, 83, 116, 114, 105, 110,
           103, 40, 41, 32, 123, 32, 91, 110, 97, 116, 105, 118, 101, 32, 99, 111, 100,
           101, 93, 32, 125>>

\* a < b in code-unit order (the order Array.prototype.sort uses by default)
RECURSIVE SeqLess(_, _)
SeqLess(a, b) ==
  IF b = <<>> THEN FALSE
  ELSE IF a = <<>> THEN TRUE
  ELSE IF Head(a) # Head(b) THEN Head(a) < Head(b)
  ELSE SeqLess(Tail(a), Tail(b))

StrLess(a, b) == SeqLess(CodeUnits(a), CodeUnits(b))

IsDigit(u) == u >= 48 /\ u <= 57

RECURSIVE DigitsValue(_)
DigitsValue(u) ==
  IF u = <<>> THEN 0 ELSE 10 * DigitsValue(SubSeq(u, 1, Len(u) - 1)) + (u[Len(u)] - 48)

\* an integer index key: a canonical decimal numeral (no sign, no leading zero)
IsIndexKey(k) ==
  LET u == CodeUnits(k) IN
    /\ u # <<>>
    /\ \A i \in 1..Len(u) : IsDigit(u[i])
    /\ (Len(u) > 1 => u[1] # 48)

IndexValue(k) == DigitsValue(CodeUnits(k))

(***************************************************************************)
(* Values.                                                                 *)
(***************************************************************************)
Scalar(t, s) == [t |-> t, s |-> s, c |-> <<>>]
Null == Scalar("null", "null")
Undefined == Scalar("undefined", "undefined")
Num(n) == Scalar("number", ToString(n))
Str(s) == Scalar("string", s)
Member(k, v) == [k |-> k, v |-> v]
Arr(items) ==
  [t |-> "array", s |-> "", c |-> [i \in 1..Len(items) |-> Member(ToString(i - 1), items[i])]]
Obj(members) == [t |-> "object", s |-> "", c |-> members]

\* Object.prototype.toString, what a lookup of "toString" finds on an object
\* that has no own property of that name
ProtoToString == Scalar("function", "function toString() { [native code] }")

TypeOf(v) == IF v.t \in {"null", "array", "object"} THEN "object" ELSE v.t
IsArray(v) == v.t = "array"
Length(v) == Len(v.c)
Items(v) == [i \in 1..Len(v.c) |-> v.c[i].v]
ObjectEntries(v) == v.c
ObjectKeys(v) == [i \in 1..Len(v.c) |-> v.c[i].k]
HasOwn(v, k) == \E i \in 1..Len(v.c) : v.c[i].k = k
OwnValue(v, k) == v.c[CHOOSE i \in 1..Len(v.c) : v.c[i].k = k].v

\* item[key]: the own property, else what the prototype chain holds
Get(v, k) ==
  IF HasOwn(v, k) THEN OwnValue(v, k)
  ELSE IF v.t = "object" /\ k = "toString" THEN ProtoToString
  ELSE Undefined

(***************************************************************************)
(* JSON.parse: members are defined in document order; the resulting        *)
(* object lists integer index keys first, in ascending numeric order, then *)
(* the other keys in the order they were defined.                          *)
(***************************************************************************)
RECURSIVE InsertIndexKey(_, _)
InsertIndexKey(ms, m) ==
  IF ms = <<>> THEN <<m>>
  ELSE IF IndexValue(m.k) < IndexValue(Head(ms).k) THEN <<m>> \o ms
  ELSE <<Head(ms)>> \o InsertIndexKey(Tail(ms), m)

RECURSIVE SortIndexKeys(_)
SortIndexKeys(ms) ==
  IF ms = <<>> THEN <<>>
  ELSE InsertIndexKey(SortIndexKeys(SubSeq(ms, 1, Len(ms) - 1)), ms[Len(ms)])

OwnPropertyOrder(ms) ==
  SortIndexKeys(SelectSeq(ms, LAMBDA m : IsIndexKey(m.k)))
    \o SelectSeq(ms, LAMBDA m : ~IsIndexKey(m.k))

RECURSIVE JSONParse(_)
JSONParse(txt) ==
  IF txt.t = "array"
    THEN [txt EXCEPT !.c = [i \in 1..Len(txt.c) |-> Member(txt.c[i].k, JSONParse(txt.c[i].v))]]
  ELSE IF txt.t = "object"
    THEN [txt EXCEPT !.c =
           OwnPropertyOrder([i \in 1..Len(txt.c) |-> Member(txt.c[i].k, JSONParse(txt.c[i].v))])]
  ELSE txt

(***************************************************************************)
(* getTableStructure, page.tsx:101-140.                                    *)
(***************************************************************************)
\* Array.prototype.sort() with the default comparison, on distinct strings
RECURSIVE InsertSorted(_, _)
InsertSorted(s, k) ==
  IF s = <<>> THEN <<k>>
  ELSE IF StrLess(k, Head(s)) THEN <<k>> \o s
  ELSE <<Head(s)>> \o InsertSorted(Tail(s), k)

RECURSIVE Sort(_)
Sort(s) ==
  IF s = <<>> THEN <<>> ELSE InsertSorted(Sort(SubSeq(s, 1, Len(s) - 1)), s[Len(s)])

\* Set.prototype.add over a sequence of keys: first occurrences, in order
RECURSIVE AddAll(_, _)
AddAll(set, keys) ==
  IF keys = <<>> THEN set
  ELSE AddAll(IF \E i \in 1..Len(set) : set[i] = Head(keys) THEN set ELSE set \o <<Head(keys)>>,
              Tail(keys))

\* mutant: the null test of line 108 forgotten (typeof null is 'object')
IsRecordNullAdmitted(item) == TypeOf(item) = "object" /\ ~IsArray(item)

\* line 108: typeof item === 'object' && item !== null && !Array.isArray(item)
IsRecord(item) == TypeOf(item) = "object" /\ item.t # "null" /\ ~IsArray(item)

\* lines 109-116: the keys of every item that excludeKeys does not hold
RECURSIVE CollectKeys(_, _, _)
CollectKeys(items, exclude, allKeys) ==
  IF items = <<>> THEN allKeys
  ELSE CollectKeys(Tail(items), exclude,
         AddAll(allKeys, SelectSeq(ObjectKeys(Head(items)), LAMBDA k : k \notin exclude)))

\* mutant: the sort of line 117 forgotten
HeadersUnsorted(allKeys) == allKeys

\* line 117
Headers(allKeys) == Sort(allKeys)

\* mutant: a row built from the headers the item has, the others skipped
RecordRowsOwnOnly(d, headers) ==
  [i \in 1..Length(d) |->
     LET own == SelectSeq(headers, LAMBDA h : HasOwn(Items(d)[i], h))
     IN  [j \in 1..Len(own) |-> Get(Items(d)[i], own[j])]]

\* lines 118-120
RecordRows(d, headers) ==
  [i \in 1..Length(d) |-> [j \in 1..Len(headers) |-> Get(Items(d)[i], headers[j])]]

\* mutant: the index column counted from 1
IndexRowsFromOne(d) == [i \in 1..Length(d) |-> <<Num(i), Items(d)[i]>>]

\* lines 125-126
IndexRows(d) == [i \in 1..Length(d) |-> <<Num(i - 1), Items(d)[i]>>]

\* mutant: the filter of line 134 forgotten
EntryRowsUnfiltered(d, exclude) ==
  [i \in 1..Len(ObjectEntries(d)) |-> <<Str(ObjectEntries(d)[i].k), ObjectEntries(d)[i].v>>]

\* lines 133-135
EntryRows(d, exclude) ==
  LET kept == SelectSeq(ObjectEntries(d), LAMBDA m : m.k \notin exclude)
  IN  [i \in 1..Len(kept) |-> <<Str(kept[i].k), kept[i].v>>]

\* the returned { headers, rows }; threw marks a call that ended in a TypeError
Grid(headers, rows) == [headers |-> headers, rows |-> rows, threw |-> FALSE]
Thrown == [headers |-> <<>>, rows |-> <<>>, threw |-> TRUE]

\* Object.keys / Object.entries throw a TypeError on null and undefined
ToObjectThrows(v) == v.t \in {"null", "undefined"}

\* lines 117-121: the grid of an array of records under its sorted headers
RecordGrid(d, headers) == Grid(headers, RecordRows(d, headers))

getTableStructure(d, exclude) ==
  IF IsArray(d) THEN
    IF Length(d) = 0 THEN Grid(<<"Index", "Value">>, <<>>)
    ELSE IF \A i \in 1..Length(d) : IsRecord(Items(d)[i]) THEN
      IF \E i \in 1..Length(d) : ToObjectThrows(Items(d)[i]) THEN Thrown
      ELSE RecordGrid(d, Headers(CollectKeys(Items(d), exclude, <<>>)))
    ELSE Grid(<<"Index", "Value">>, IndexRows(d))
  ELSE IF TypeOf(d) = "object" /\ d.t # "null" THEN
    Grid(<<"Key", "Value">>, EntryRows(d, exclude))
  ELSE Grid(<<"Value">>, <<<<d>>>>)

(***************************************************************************)
(* Shape predicates, page.tsx:89-98 and 143-148.                           *)
(***************************************************************************)
\* JavaScript truthiness of a value
Truthy(v) ==
  CASE v.t \in {"null", "undefined"} -> FALSE
    [] v.t = "number" -> v.s \notin {"0", "NaN"}
    [] v.t = "string" -> v.s # ""
    [] v.t = "boolean" -> v.s = "true"
    [] OTHER -> TRUE

\* mutant: the test !data of line 90 forgotten (typeof null is 'object')
canDisplayAsTableNullAdmitted(d) == IsArray(d) \/ TypeOf(d) = "object"

canDisplayAsTable(d) ==
  IF ~Truthy(d) THEN FALSE
  ELSE IF IsArray(d) THEN TRUE
  ELSE IF TypeOf(d) = "object" /\ d.t # "null" THEN TRUE
  ELSE FALSE

\* value.length > 0 && value.every(item => typeof item === 'object' && item !== null),
\* the test of lines 145, 152, 510, 544, 557, 565, 612 and 668 (after Array.isArray)
IsObjectArray(v) ==
  /\ IsArray(v)
  /\ Length(v) > 0
  /\ \A i \in 1..Length(v) : TypeOf(Items(v)[i]) = "object" /\ Items(v)[i].t # "null"

\* typeof v === 'object' && v !== null && !Array.isArray(v)
IsPlainObject(v) == TypeOf(v) = "object" /\ v.t # "null" /\ ~IsArray(v)

isNestedStructure(v) ==
  IF IsArray(v) THEN IsObjectArray(v)
  ELSE TypeOf(v) = "object" /\ v.t # "null" /\ Len(ObjectKeys(v)) > 0

(***************************************************************************)
(* The rendered element tree.  A node stands for one call of a render      *)
(* function (fn names it, arg is the value it was called on) or, with      *)
(* fn = "", for an element the caller builds itself (a row, a labelled     *)
(* field, the "Table" group).  path is the place in the document of the    *)
(* value the element shows.                                                *)
(***************************************************************************)
Node(fn, kind, key, arg, path, kids) ==
  [fn |-> fn, kind |-> kind, key |-> key, arg |-> arg, path |-> path, kids |-> kids,
   grid |-> <<>>, tableId |-> "", index |-> 0, collapsed |-> FALSE,
   copy |-> <<>>, copyId |-> ""]

\* an omitted parentKey / parentRowIndex argument
NoKey == "undefined"
NoRow == <<>>
RowNo(i) == <<i>>
\* `${parentRowIndex}` in a template literal
RowText(r) == IF r = NoRow THEN "undefined" ELSE ToString(r[1])
\* parentRowIndex || 0
RowOrZero(r) == IF r = NoRow THEN 0 ELSE r[1]
\* parentKey || 'Array'
KeyOrArray(k) == IF k = NoKey \/ k = "" THEN "Array" ELSE k

PackagesAndVulnerabilities == {"Packages", "Vulnerabilities"}

\* the path element of a cell the grid made up (a row index, an entry key)
Synthetic == "#"
Idx(i) == ToString(i - 1)

\* the place in the document of cell j of row r of the grid of value v at path
CellPath(v, grid, path, r, j) ==
  IF IsArray(v) THEN
    IF \A i \in 1..Length(v) : IsRecord(Items(v)[i])
      THEN path \o <<Idx(r), grid.headers[j]>>
    ELSE IF j = 1 THEN path \o <<Idx(r), Synthetic>>
    ELSE path \o <<Idx(r)>>
  ELSE IF j = 1 THEN path \o <<grid.rows[r][1].s, Synthetic>>
  ELSE path \o <<grid.rows[r][1].s>>

\* a table row: its cells, then what the caller puts beneath it; record and
\* copyId are what its Copy button hands to copyRecord
Row(arg, path, kids, record, copyId) ==
  [Node("", "Row", "", arg, path, kids) EXCEPT !.copy = record, !.copyId = copyId]

\* an exception thrown while rendering
Throw(fn, arg, path) == Node(fn, "Throw", "", arg, path, <<>>)

\* mutant: the comparator of lines 591-595 forgotten (entries stay in object order)
SortTableEntriesUnsorted(es) == es

\* lines 590-595: tableEntries.sort, Vulnerabilities (1) before Packages (2)
RECURSIVE SortTableEntries(_)
SortTableEntries(es) ==
  LET order(k) == CASE k = "Vulnerabilities" -> 1 [] k = "Packages" -> 2 [] OTHER -> 99
      RECURSIVE Insert(_, _)
      Insert(s, e) ==
        IF s = <<>> THEN <<e>>
        ELSE IF order(e.k) - order(Head(s).k) < 0 THEN <<e>> \o s
        ELSE <<Head(s)>> \o Insert(Tail(s), e)
  IN  IF es = <<>> THEN <<>>
      ELSE Insert(SortTableEntries(SubSeq(es, 1, Len(es) - 1)), es[Len(es)])

\* lines 555-558
TableEntries(entries) ==
  SelectSeq(entries, LAMBDA e : e.k \in PackagesAndVulnerabilities /\ IsObjectArray(e.v))

\* line 559
OtherEntries(entries) == SelectSeq(entries, LAMBDA e : e.k \notin PackagesAndVulnerabilities)

\* mutant: line 512 testing for Packages alone
IsCollapsibleKeyPackagesOnly(k) == k = "Packages"

\* line 512: parentKey === 'Packages' || parentKey === 'Vulnerabilities'
IsCollapsibleKey(k) == k = "Packages" \/ k = "Vulnerabilities"

\* line 154: key === 'Results' ? ['Packages', 'Vulnerabilities'] : []
ResultsExclude(key) == IF key = "Results" THEN PackagesAndVulnerabilities ELSE {}

RECURSIVE renderCellWithNestedArrays(_, _, _, _, _)
RECURSIVE renderCellValue(_, _, _, _, _)
RECURSIVE renderNestedTable(_, _, _, _)
RECURSIVE renderCollapsibleTable(_, _, _, _, _, _)

\* page.tsx:699-720
renderCellValue(value, parentKey, parentRowIndex, path, cs) ==
  IF value.t \in {"null", "undefined", "boolean", "number", "string"}
    THEN Node("renderCellValue", "Scalar", parentKey, value, path, <<>>)
  ELSE IF TypeOf(value) = "object"
    THEN Node("renderCellValue", "Delegate", parentKey, value, path,
              <<renderCellWithNestedArrays(value, parentKey, parentRowIndex, path, cs)>>)
  ELSE Node("renderCellValue", "Scalar", parentKey, value, path, <<>>)

\* lines 383-502: what renderCollapsibleTable returns once grid holds the
\* { headers, rows } of line 381
CollapsibleTable(grid, key, value, index, tableId, path, cs) ==
  IF grid.threw THEN Throw("renderCollapsibleTable", value, path)
  ELSE [Node("renderCollapsibleTable", "CollapsibleTable", key, value, path,
             IF tableId \in cs THEN <<>>
             ELSE [r \in 1..Len(grid.rows) |->
                     Row(Items(value)[r], path \o <<Idx(r)>>,
                         [j \in 1..Len(grid.rows[r]) |->
                            renderCellWithNestedArrays(grid.rows[r][j], grid.headers[j],
                              RowNo(r - 1), CellPath(value, grid, path, r, j), cs)],
                         <<Items(value)[r]>>, tableId \o "-" \o Idx(r))])
          EXCEPT !.grid = <<grid>>, !.tableId = tableId, !.index = index,
                 !.collapsed = tableId \in cs]

\* page.tsx:379-503
renderCollapsibleTable(key, value, index, tableId, path, cs) ==
  CollapsibleTable(getTableStructure(value, {}), key, value, index, tableId, path, cs)

\* row.Packages && Array.isArray(row.Packages) && row.Packages.length > 0, lines 209-210
HasTable(v) == IsArray(v) /\ Length(v) > 0

\* lines 245-264: the collapsible tables beneath the row of originalRow
Beneath(originalRow, r, path, cs) ==
  IF HasTable(Get(originalRow, "Packages")) \/ HasTable(Get(originalRow, "Vulnerabilities")) THEN
    <<Node("", "TableGroup", "", originalRow, path \o <<Idx(r)>>,
         (IF HasTable(Get(originalRow, "Vulnerabilities"))
            THEN <<renderCollapsibleTable("Vulnerabilities", Get(originalRow, "Vulnerabilities"),
                     1, "results-" \o Idx(r) \o "-Vulnerabilities",
                     path \o <<Idx(r), "Vulnerabilities">>, cs)>>
            ELSE <<>>)
         \o
         (IF HasTable(Get(originalRow, "Packages"))
            THEN <<renderCollapsibleTable("Packages", Get(originalRow, "Packages"),
                     2, "results-" \o Idx(r) \o "-Packages",
                     path \o <<Idx(r), "Packages">>, cs)>>
            ELSE <<>>))>>
  ELSE <<>>

\* lines 157-273: what renderNestedTable returns once grid holds the
\* { headers, rows } of line 155
NestedTable(grid, key, value, path, cs) ==
  IF grid.threw THEN Throw("renderNestedTable", value, path)
  ELSE [Node("renderNestedTable", "Table", key, value, path,
             [r \in 1..Len(grid.rows) |->
                Row(Items(value)[r], path \o <<Idx(r)>>,
                    [j \in 1..Len(grid.rows[r]) |->
                       renderCellValue(grid.rows[r][j], grid.headers[j], RowNo(r - 1),
                                       CellPath(value, grid, path, r, j), cs)]
                    \o Beneath(Items(value)[r], r, path, cs),
                    <<Items(value)[r]>>, "nested-" \o key \o "-" \o Idx(r))])
          EXCEPT !.grid = <<grid>>]

\* page.tsx:151-276
renderNestedTable(key, value, path, cs) ==
  IF IsObjectArray(value)
    THEN NestedTable(getTableStructure(value, ResultsExclude(key)), key, value, path, cs)
  ELSE Node("renderNestedTable", "Null", key, value, path, <<>>)

\* a labelled element around what is shown for the entry k
Field(k, arg, path, kid) == Node("", "Field", k, arg, path, <<kid>>)

\* the bulleted list of lines 617-626 and 671-680
BulletList(k, v, parentRowIndex, path, cs) ==
  Node("", "BulletList", k, v, path,
       [i \in 1..Length(v) |->
          renderCellValue(Items(v)[i], k, parentRowIndex, path \o <<Idx(i)>>, cs)])

\* mutant: the badge list cut after its first badge
BadgesTruncated(value, parentKey, parentRowIndex, path, cs) ==
  [i \in 1..1 |->
     renderCellValue(Items(value)[i], parentKey, parentRowIndex, path \o <<Idx(i)>>, cs)]

\* lines 524-531: value.map((item, idx) => <span>renderCellValue(item, ...)</span>)
Badges(value, parentKey, parentRowIndex, path, cs) ==
  [i \in 1..Length(value) |->
     renderCellValue(Items(value)[i], parentKey, parentRowIndex, path \o <<Idx(i)>>, cs)]

\* page.tsx:507-696
renderCellWithNestedArrays(value, parentKey, parentRowIndex, path, cs) ==
  LET me(kind, kids) == Node("renderCellWithNestedArrays", kind, parentKey, value, path, kids)
      entries == ObjectEntries(value)
      \* lines 564-582
      other(e) ==
        IF IsObjectArray(e.v)
          THEN Field(e.k, e.v, path \o <<e.k>>, renderNestedTable(e.k, e.v, path \o <<e.k>>, cs))
        ELSE IF IsPlainObject(e.v)
          THEN Field(e.k, e.v, path \o <<e.k>>,
                 renderCellWithNestedArrays(e.v, e.k, parentRowIndex, path \o <<e.k>>, cs))
        ELSE Field(e.k, e.v, path \o <<e.k>>,
               renderCellValue(e.v, e.k, parentRowIndex, path \o <<e.k>>, cs))
      \* lines 596-600
      collapsible(e) ==
        renderCollapsibleTable(e.k, e.v, IF e.k = "Vulnerabilities" THEN 1 ELSE 2,
          "table-" \o ToString(RowOrZero(parentRowIndex)) \o "-" \o e.k, path \o <<e.k>>, cs)
      \* lines 610-650
      expanded(e) ==
        IF IsArray(e.v) THEN
          IF IsObjectArray(e.v)
            THEN Field(e.k, e.v, path \o <<e.k>>,
                   renderNestedTable(e.k, e.v, path \o <<e.k>>, cs))
          ELSE IF Length(e.v) > 0
            THEN BulletList(e.k, e.v, parentRowIndex, path \o <<e.k>>, cs)
          ELSE Node("", "EmptyArray", e.k, e.v, path \o <<e.k>>, <<>>)
        ELSE IF TypeOf(e.v) = "object" /\ e.v.t # "null"
          THEN Field(e.k, e.v, path \o <<e.k>>,
                 renderCellWithNestedArrays(e.v, e.k, parentRowIndex, path \o <<e.k>>, cs))
        ELSE Field(e.k, e.v, path \o <<e.k>>,
               renderCellValue(e.v, NoKey, NoRow, path \o <<e.k>>, cs))
      \* lines 657-689
      simple(e) ==
        IF IsPlainObject(e.v) /\ Len(ObjectKeys(e.v)) > 0
          THEN Field(e.k, e.v, path \o <<e.k>>,
                 renderCellWithNestedArrays(e.v, e.k, parentRowIndex, path \o <<e.k>>, cs))
        ELSE IF IsArray(e.v) /\ IsObjectArray(e.v)
          THEN Field(e.k, e.v, path \o <<e.k>>,
                 renderNestedTable(e.k, e.v, path \o <<e.k>>, cs))
        ELSE IF IsArray(e.v) /\ Length(e.v) > 0
          THEN BulletList(e.k, e.v, parentRowIndex, path \o <<e.k>>, cs)
        ELSE Field(e.k, e.v, path \o <<e.k>>,
               renderCellValue(e.v, NoKey, NoRow, path \o <<e.k>>, cs))
  IN
  IF IsArray(value) THEN
    IF IsObjectArray(value) THEN
      IF IsCollapsibleKey(parentKey)
        THEN me("Delegate",
                <<renderCollapsibleTable(parentKey, value,
                    IF parentKey = "Packages" THEN 2 ELSE 1,
                    "table-" \o RowText(parentRowIndex) \o "-" \o parentKey, path, cs)>>)
      ELSE me("Delegate", <<renderNestedTable(KeyOrArray(parentKey), value, path, cs)>>)
    ELSE IF Length(value) > 0
      THEN me("BadgeList", Badges(value, parentKey, parentRowIndex, path, cs))
    ELSE me("EmptyArray", <<>>)
  ELSE IF IsPlainObject(value) THEN
    IF \E i \in 1..Len(entries) : IsObjectArray(entries[i].v) THEN
      IF \E i \in 1..Len(entries) : entries[i].k \in PackagesAndVulnerabilities THEN
        LET tableEntries == TableEntries(entries)
            otherEntries == OtherEntries(entries)
            sorted == SortTableEntries(tableEntries)
        IN  me("Group",
               [i \in 1..Len(otherEntries) |-> other(otherEntries[i])]
               \o (IF Len(tableEntries) > 0
                     THEN <<Node("", "TableGroup", "", value, path,
                                 [i \in 1..Len(sorted) |-> collapsible(sorted[i])])>>
                     ELSE <<>>))
      ELSE me("Expanded", [i \in 1..Len(entries) |-> expanded(entries[i])])
    ELSE me("KeyValuePanel", [i \in 1..Len(entries) |-> simple(entries[i])])
  ELSE me("Delegate", <<renderCellValue(value, parentKey, parentRowIndex, path, cs)>>)

(***************************************************************************)
(* The output section of Home, page.tsx:799-1052.                          *)
(***************************************************************************)
Placeholder(text) == Node("Home", "Placeholder", text, Undefined, <<>>, <<>>)

\* Object.fromEntries(headers.map((h, idx) => [h, row[idx]])), lines 876 and 995
FromEntries(headers, row) ==
  Obj(OwnPropertyOrder([j \in 1..Len(headers) |-> Member(headers[j], row[j])]))

\* lines 832-922: the key-value table once grid holds the { headers, rows } of line 831
KeyValueRows(grid, key, value, path, cs) ==
  IF grid.threw THEN Throw("Home", value, path)
  ELSE [Node("Home", "KeyValueTable", key, value, path,
             [r \in 1..Len(grid.rows) |->
                Row(grid.rows[r][2], CellPath(value, grid, path, r, 2),
                    [j \in 1..Len(grid.rows[r]) |->
                       renderCellWithNestedArrays(grid.rows[r][j], grid.headers[j],
                         RowNo(r - 1), CellPath(value, grid, path, r, j), cs)],
                    <<IF IsArray(value) THEN Items(value)[r]
                      ELSE FromEntries(grid.headers, grid.rows[r])>>,
                    "nested-obj-" \o key \o "-" \o Idx(r))])
          EXCEPT !.grid = <<grid>>]

\* lines 829-923: a nested object of the document shown as a key-value table
KeyValueTable(key, value, path, cs) ==
  KeyValueRows(getTableStructure(value, {}), key, value, path, cs)

\* lines 824-937: the section of an entry once nestedTable holds the result of line 824
SectionOf(nestedTable, key, value, cs) ==
  IF isNestedStructure(value) /\ nestedTable.kind # "Null"
    THEN Field(key, value, <<key>>, nestedTable)
  ELSE IF isNestedStructure(value) /\ IsPlainObject(value)
    THEN KeyValueTable(key, value, <<key>>, cs)
  ELSE Field(key, value, <<key>>, renderCellWithNestedArrays(value, key, NoRow, <<key>>, cs))

\* lines 821-937: one section per entry of the document
Section(key, value, cs) ==
  SectionOf(renderNestedTable(key, value, <<key>>, cs), key, value, cs)

\* lines 945-1043: the standard table once grid holds the { headers, rows } of line 944
StandardRows(grid, parsedData, cs) ==
  IF grid.threw THEN Throw("Home", parsedData, <<>>)
  ELSE [Node("Home", "StandardTable", "", parsedData, <<>>,
             IF Len(grid.rows) = 0
               THEN <<Node("", "NoData", "", parsedData, <<>>, <<>>)>>
               ELSE [r \in 1..Len(grid.rows) |->
                       Row(IF IsArray(parsedData) THEN Items(parsedData)[r] ELSE grid.rows[r][2],
                           IF IsArray(parsedData) THEN <<Idx(r)>>
                           ELSE CellPath(parsedData, grid, <<>>, r, 2),
                           [j \in 1..Len(grid.rows[r]) |->
                              renderCellWithNestedArrays(grid.rows[r][j], grid.headers[j],
                                RowNo(r - 1), CellPath(parsedData, grid, <<>>, r, j), cs)],
                           IF IsArray(parsedData) THEN <<Items(parsedData)[r]>> ELSE <<>>,
                           IF IsArray(parsedData) THEN "standard-" \o Idx(r) ELSE "")])
          EXCEPT !.grid = <<grid>>]

\* lines 943-1044: the standard table of an array or a simple object
StandardTable(parsedData, cs) ==
  StandardRows(getTableStructure(parsedData, {}), parsedData, cs)

\* lines 799-1052; blank is !jsonInput.trim(), hasError is error being set
HomeOutput(blank, hasError, parsedData, cs) ==
  IF blank THEN Placeholder("Enter JSON to view table")
  ELSE IF hasError THEN Placeholder("Invalid JSON")
  ELSE IF Truthy(parsedData) /\ canDisplayAsTable(parsedData) THEN
    IF IsPlainObject(parsedData)
         /\ \E i \in 1..Len(ObjectEntries(parsedData)) :
              isNestedStructure(ObjectEntries(parsedData)[i].v)
      THEN Node("Home", "Sections", "", parsedData, <<>>,
                [i \in 1..Len(ObjectEntries(parsedData)) |->
                   Section(ObjectEntries(parsedData)[i].k, ObjectEntries(parsedData)[i].v, cs)])
    ELSE StandardTable(parsedData, cs)
  ELSE Placeholder("Cannot display as table")

(***************************************************************************)
(* Text.  The CSV export and the clipboard work on the characters of       *)
(* strings, so a string is here the sequence of its UTF-16 code units and  *)
(* a value [t, s, c] holds code units in s and in the keys of c.           *)
(***************************************************************************)
RECURSIVE Units(_)
RECURSIVE UnitsOfMembers(_, _)
UnitsOfMembers(ms, i) ==
  IF i > Len(ms) THEN <<>>
  ELSE <<[k |-> CodeUnits(ms[i].k), v |-> Units(ms[i].v)]>> \o UnitsOfMembers(ms, i + 1)
\* the value v with its strings spelled out in code units
Units(v) == [t |-> v.t, s |-> CodeUnits(v.s), c |-> UnitsOfMembers(v.c, 1)]

\* the decimal numeral of a natural number
RECURSIVE Decimal(_)
Decimal(n) == IF n < 10 THEN <<48 + n>> ELSE Decimal(n \div 10) \o <<48 + (n % 10)>>

\* strs.join(sep), from element i on
RECURSIVE Join(_, _, _)
Join(strs, i, sep) ==
  IF i > Len(strs) THEN <<>>
  ELSE strs[i] \o (IF i < Len(strs) THEN sep ELSE <<>>) \o Join(strs, i + 1, sep)

\* "[object Object]", Object.prototype.toString of a plain object
ObjectObject == <<91, 111, 98, 106, 101, 99, 116, 32, 79, 98, 106, 101, 99, 116, 93>>

\* String(value), lines 325 and 331: an array is its elements joined by ","
\* (null and undefined elements give the empty string)
RECURSIVE StringOf(_)
RECURSIVE ArrayToString(_, _)
ArrayToString(ms, i) ==
  IF i > Len(ms) THEN <<>>
  ELSE (IF ms[i].v.t \in {"null", "undefined"} THEN <<>> ELSE StringOf(ms[i].v))
         \o (IF i < Len(ms) THEN <<44>> ELSE <<>>)
         \o ArrayToString(ms, i + 1)
StringOf(v) ==
  CASE v.t = "array" -> ArrayToString(v.c, 1)
    [] v.t = "object" -> ObjectObject
    [] OTHER -> v.s

\* the escapes of a JSON string literal
RECURSIVE EscapeJSON(_, _)
EscapeJSON(u, i) ==
  IF i > Len(u) THEN <<>>
  ELSE (CASE u[i] = 34 -> <<92, 34>>
          [] u[i] = 92 -> <<92, 92>>
          [] u[i] = 10 -> <<92, 110>>
          [] OTHER -> <<u[i]>>) \o EscapeJSON(u, i + 1)
Quote(u) == <<34>> \o EscapeJSON(u, 1) \o <<34>>

\* the line break and indentation JSON.stringify puts before an item when a
\* gap is given (none for the compact form)
Break(gap, ind) == IF gap = <<>> THEN <<>> ELSE <<10>> \o ind

\* JSON.stringify(v, null, gap) of a JSON value, at indentation ind
RECURSIVE JSONStringify(_, _, _)
RECURSIVE StringifyMembers(_, _, _, _, _)
StringifyMembers(ms, i, isObject, gap, ind) ==
  IF i > Len(ms) THEN <<>>
  ELSE (IF isObject
          THEN Quote(ms[i].k) \o <<58>> \o (IF gap = <<>> THEN <<>> ELSE <<32>>)
          ELSE <<>>)
         \o JSONStringify(ms[i].v, gap, ind)
         \o (IF i < Len(ms) THEN <<44>> \o Break(gap, ind) ELSE <<>>)
         \o StringifyMembers(ms, i + 1, isObject, gap, ind)
JSONStringify(v, gap, ind) ==
  CASE v.t = "array" ->
         IF Len(v.c) = 0 THEN <<91, 93>>
         ELSE <<91>> \o Break(gap, ind \o gap)
                \o StringifyMembers(v.c, 1, FALSE, gap, ind \o gap)
                \o Break(gap, ind) \o <<93>>
    [] v.t = "object" ->
         IF Len(v.c) = 0 THEN <<123, 125>>
         ELSE <<123>> \o Break(gap, ind \o gap)
                \o StringifyMembers(v.c, 1, TRUE, gap, ind \o gap)
                \o Break(gap, ind) \o <<125>>
    [] v.t = "string" -> Quote(v.s)
    [] OTHER -> v.s

(***************************************************************************)
(* JSON.parse of a text in code units, lines 19 and 71.  The result is the *)
(* document as written (members in text order); parsedData is JSONParse of *)
(* it.  A text that is not JSON gives a SyntaxError, whose message is      *)
(* modelled by the position the parser stopped at.                         *)
(***************************************************************************)
\* the strings whose code units are spelled out
KnownStrings ==
  { "0", "1", "2", "3", "10", "Index", "Key", "Name", "Packages", "Results", "Value",
    "Vulnerabilities", "a", "b", "cfg", "n", "toString", "x", "", "7", "c", "null",
    "undefined", "true", "false", "a.b", "a,b", "x,y", "q\"q", "l\nl", "__proto__" }
\* the string of a sequence of code units
Chars(u) == CHOOSE k \in KnownStrings : CodeUnits(k) = u

IsSpace(c) == c \in {32, 9, 10, 13}
\* the first position from i on that holds no white space
SkipSpace(u, i) ==
  CHOOSE j \in i..(Len(u) + 1) :
    /\ \A k \in i..(j - 1) : IsSpace(u[k])
    /\ j > Len(u) \/ ~IsSpace(u[j])
\* the first position from i on that holds no digit
SkipDigits(u, i) ==
  CHOOSE j \in i..(Len(u) + 1) :
    /\ \A k \in i..(j - 1) : IsDigit(u[k])
    /\ j > Len(u) \/ ~IsDigit(u[j])
\* the text holds the word w at position i
HasWord(u, i, w) == i + Len(w) - 1 <= Len(u) /\ SubSeq(u, i, i + Len(w) - 1) = w

\* a value read up to position next - 1, or a syntax error at position next
Parsed(v, next) == [ok |-> TRUE, v |-> v, next |-> next]
SyntaxError(at) == [ok |-> FALSE, v |-> Null, next |-> at]

\* the characters of a string literal from position i on, up to its closing
\* quote; the escapes are those JSON.stringify writes
RECURSIVE ParseChars(_, _, _)
ParseChars(u, i, acc) ==
  IF i > Len(u) \/ u[i] = 10 THEN SyntaxError(i)
  ELSE IF u[i] = 34 THEN Parsed(acc, i + 1)
  ELSE IF u[i] = 92 THEN
    IF i + 1 > Len(u) THEN SyntaxError(i + 1)
    ELSE IF u[i + 1] \in {34, 92} THEN ParseChars(u, i + 2, Append(acc, u[i + 1]))
    ELSE IF u[i + 1] = 110 THEN ParseChars(u, i + 2, Append(acc, 10))
    ELSE SyntaxError(i + 1)
  ELSE ParseChars(u, i + 1, Append(acc, u[i]))

RECURSIVE ParseValue(_, _)
RECURSIVE ParseElements(_, _, _)
RECURSIVE ParseMembers(_, _, _)
\* after an element r: a comma and more elements, or the closing bracket at k
ElementsAfter(u, r, k, acc) ==
  IF ~r.ok THEN r
  ELSE IF k > Len(u) THEN SyntaxError(k)
  ELSE IF u[k] = 44 THEN ParseElements(u, k + 1, Append(acc, r.v))
  ELSE IF u[k] = 93 THEN Parsed(Arr(Append(acc, r.v)), k + 1)
  ELSE SyntaxError(k)
ElementsNext(u, r, acc) ==
  IF ~r.ok THEN r ELSE ElementsAfter(u, r, SkipSpace(u, r.next), acc)
ParseElements(u, i, acc) == ElementsNext(u, ParseValue(u, i), acc)

\* after the value r of the member named key: a comma and more members, or
\* the closing brace at k
MembersAfter(u, key, r, k, acc) ==
  IF k > Len(u) THEN SyntaxError(k)
  ELSE IF u[k] = 44 THEN ParseMembers(u, SkipSpace(u, k + 1), Append(acc, Member(Chars(key), r.v)))
  ELSE IF u[k] = 125 THEN Parsed(Obj(Append(acc, Member(Chars(key), r.v))), k + 1)
  ELSE SyntaxError(k)
MemberValue(u, key, r, acc) ==
  IF ~r.ok THEN r ELSE MembersAfter(u, key, r, SkipSpace(u, r.next), acc)
\* after the key: the colon at k and the value
MemberColon(u, key, k, acc) ==
  IF ~key.ok THEN key
  ELSE IF k > Len(u) \/ u[k] # 58 THEN SyntaxError(k)
  ELSE MemberValue(u, key.v, ParseValue(u, k + 1), acc)
MemberKey(u, key, acc) ==
  IF ~key.ok THEN key ELSE MemberColon(u, key, SkipSpace(u, key.next), acc)
\* the members of an object from the key at position i on
ParseMembers(u, i, acc) ==
  IF i > Len(u) \/ u[i] # 34 THEN SyntaxError(i)
  ELSE MemberKey(u, ParseChars(u, i + 1, <<>>), acc)

StringValue(r) == IF r.ok THEN Parsed(Str(Chars(r.v)), r.next) ELSE r
\* the value at position i, which holds no white space
ValueAt(u, i) ==
  IF i > Len(u) THEN SyntaxError(i)
  ELSE IF u[i] = 91 THEN
    IF SkipSpace(u, i + 1) <= Len(u) /\ u[SkipSpace(u, i + 1)] = 93
      THEN Parsed(Arr(<<>>), SkipSpace(u, i + 1) + 1)
    ELSE ParseElements(u, i + 1, <<>>)
  ELSE IF u[i] = 123 THEN
    IF SkipSpace(u, i + 1) <= Len(u) /\ u[SkipSpace(u, i + 1)] = 125
      THEN Parsed(Obj(<<>>), SkipSpace(u, i + 1) + 1)
    ELSE ParseMembers(u, SkipSpace(u, i + 1), <<>>)
  ELSE IF u[i] = 34 THEN StringValue(ParseChars(u, i + 1, <<>>))
  ELSE IF HasWord(u, i, <<110, 117, 108, 108>>) THEN Parsed(Null, i + 4)
  ELSE IF HasWord(u, i, <<116, 114, 117, 101>>) THEN Parsed(Scalar("boolean", "true"), i + 4)
  ELSE IF HasWord(u, i, <<102, 97, 108, 115, 101>>)
    THEN Parsed(Scalar("boolean", "false"), i + 5)
  ELSE IF u[i] = 48 THEN Parsed(Scalar("number", "0"), i + 1)
  ELSE IF IsDigit(u[i])
    THEN Parsed(Scalar("number", Chars(SubSeq(u, i, SkipDigits(u, i) - 1))), SkipDigits(u, i))
  ELSE SyntaxError(i)
ParseValue(u, i) == ValueAt(u, SkipSpace(u, i))

\* the whole text is one value, white space around it allowed
WholeText(u, r) ==
  IF ~r.ok THEN r
  ELSE IF SkipSpace(u, r.next) <= Len(u) THEN SyntaxError(SkipSpace(u, r.next))
  ELSE r
ParseText(u) == WholeText(u, ParseValue(u, 1))

\* jsonInput.trim() is empty, lines 13 and 799
Blank(u) == \A i \in 1..Len(u) : IsSpace(u[i])

(***************************************************************************)
(* The CSV export, page.tsx:305-376, on values in code units.  The object  *)
(* flattened is the sequence of its own properties [k, v] in insertion     *)
(* order.                                                                  *)
(***************************************************************************)
ProtoKey == CodeUnits("__proto__")
ToStringKey == CodeUnits("toString")

\* flattened[key] = value, lines 316-331, and the assignments Object.assign
\* makes, line 329: an ordinary assignment, so a string assigned to __proto__
\* goes to the setter of Object.prototype, which ignores it
SetProperty(flattened, key, value) ==
  IF key = ProtoKey THEN flattened
  ELSE IF \E i \in 1..Len(flattened) : flattened[i].k = key
    THEN [i \in 1..Len(flattened) |->
            IF flattened[i].k = key THEN [k |-> key, v |-> value] ELSE flattened[i]]
  ELSE Append(flattened, [k |-> key, v |-> value])

\* Object.assign(target, src), line 329, from property i of src on
RECURSIVE ObjectAssign(_, _, _)
ObjectAssign(target, src, i) ==
  IF i > Len(src) THEN target
  ELSE ObjectAssign(SetProperty(target, src[i].k, src[i].v), src, i + 1)

\* the one-character strings of a string, as Object.entries lists them
StringEntries(u) ==
  [i \in 1..Len(u) |-> [k |-> Decimal(i - 1), v |-> [t |-> "string", s |-> <<u[i]>>, c |-> <<>>]]]

\* Object.entries(obj), line 312, of a value that is neither null nor undefined
Entries(obj) ==
  CASE obj.t \in {"array", "object"} -> obj.c
    [] obj.t = "string" -> StringEntries(obj.s)
    [] OTHER -> <<>>

\* line 313: prefix ? `${prefix}.${key}` : key
NewKey(prefix, key) == IF prefix # <<>> THEN prefix \o <<46>> \o key ELSE key

\* line 320: value.every(item => typeof item === 'object' && item !== null)
EveryItemObject(value) ==
  \A i \in 1..Len(value.c) : TypeOf(value.c[i].v) = "object" /\ value.c[i].v.t # "null"

\* page.tsx:309-336
RECURSIVE flattenObject(_, _)
RECURSIVE FlattenFrom(_, _, _, _)
RECURSIVE FlattenValue(_, _, _)
\* lines 315-332: the body of the loop for one entry, newKey being computed
FlattenValue(newKey, value, flattened) ==
  IF value.t \in {"null", "undefined"} THEN SetProperty(flattened, newKey, <<>>)
  ELSE IF IsArray(value) THEN
    IF Len(value.c) = 0 THEN SetProperty(flattened, newKey, <<91, 93>>)
    ELSE IF EveryItemObject(value)
      THEN SetProperty(flattened, newKey, JSONStringify(value, <<>>, <<>>))
    ELSE SetProperty(flattened, newKey,
           Join([i \in 1..Len(value.c) |-> StringOf(value.c[i].v)], 1, <<59, 32>>))
  ELSE IF TypeOf(value) = "object"
    THEN ObjectAssign(flattened, flattenObject(value, newKey), 1)
  ELSE SetProperty(flattened, newKey, StringOf(value))
\* lines 312-333: the loop over the entries, from entry i on
FlattenFrom(entries, i, prefix, flattened) ==
  IF i > Len(entries) THEN flattened
  ELSE FlattenFrom(entries, i + 1, prefix,
         FlattenValue(NewKey(prefix, entries[i].k), entries[i].v, flattened))
flattenObject(obj, prefix) == FlattenFrom(Entries(obj), 1, prefix, <<>>)

\* Array.prototype.sort() of a set of strings: ascending code units
RECURSIVE SortUnits(_)
SortUnits(S) ==
  IF S = {} THEN <<>>
  ELSE LET first == CHOOSE x \in S : \A y \in S \ {x} : SeqLess(x, y)
       IN <<first>> \o SortUnits(S \ {first})

\* lines 339-345: the keys of every flattened record, sorted
ExportHeaders(flat) ==
  SortUnits(UNION { { flat[i][j].k : j \in 1..Len(flat[i]) } : i \in 1..Len(flat) })

\* line 353: flattened[header] || '', a lookup through the prototype chain;
\* of the members of Object.prototype, toString is the one followed here
CellValue(flattened, header) ==
  IF \E j \in 1..Len(flattened) : flattened[j].k = header
    THEN flattened[CHOOSE j \in 1..Len(flattened) : flattened[j].k = header].v
  ELSE IF header = ToStringKey THEN CodeUnits(ProtoToString.s)
  ELSE <<>>

\* line 355: String(value).replace(/"/g, '""')
RECURSIVE EscapeCSV(_, _)
EscapeCSV(u, i) ==
  IF i > Len(u) THEN <<>>
  ELSE (IF u[i] = 34 THEN <<34, 34>> ELSE <<u[i]>>) \o EscapeCSV(u, i + 1)

\* mutant: a cell quoted only for a comma or a double quote
CsvCellNewlineBare(value) ==
  IF \E i \in 1..Len(value) : value[i] \in {44, 34}
    THEN <<34>> \o EscapeCSV(value, 1) \o <<34>>
  ELSE EscapeCSV(value, 1)
\* lines 355-359
CsvCell(value) ==
  IF \E i \in 1..Len(value) : value[i] \in {44, 34, 10}
    THEN <<34>> \o EscapeCSV(value, 1) \o <<34>>
  ELSE EscapeCSV(value, 1)

\* what a call of exportToCSV(d) did: threw marks a TypeError, downloaded that
\* the download link was clicked (line 372); flattened, headers and cells are
\* the values of lines 340, 345 and 353, content the text of line 364
Exported(d, flat, headers, cells, content) ==
  [data |-> d, threw |-> FALSE, downloaded |-> TRUE, flattened |-> flat,
   headers |-> headers, cells |-> cells, content |-> content]
NothingExported(d, threw) ==
  [data |-> d, threw |-> threw, downloaded |-> FALSE, flattened |-> <<>>,
   headers |-> <<>>, cells |-> <<>>, content |-> <<>>]

\* lines 351-362: the cell values of every record under the headers
ExportCells(flat, headers) ==
  [i \in 1..Len(flat) |-> [h \in 1..Len(headers) |-> CellValue(flat[i], headers[h])]]

\* lines 348-364: the header line, one line per record, joined by newlines
ExportContent(headers, cells) ==
  Join(<<Join(headers, 1, <<44>>)>>
         \o [i \in 1..Len(cells) |->
               Join([h \in 1..Len(cells[i]) |-> CsvCell(cells[i][h])], 1, <<44>>)],
       1, <<10>>)

\* lines 338-375 once flat holds flattenObject(item) of every item
ExportFlattened(d, flat, headers) ==
  Exported(d, flat, headers, ExportCells(flat, headers),
           ExportContent(headers, ExportCells(flat, headers)))

\* page.tsx:305-376, for the arrays the Export buttons pass
exportToCSV(d) ==
  IF ~Truthy(d) \/ Len(d.c) = 0 THEN NothingExported(d, FALSE)
  ELSE IF \E i \in 1..Len(d.c) : d.c[i].v.t \in {"null", "undefined"}
    THEN NothingExported(d, TRUE)
  ELSE ExportFlattened(d, [i \in 1..Len(d.c) |-> flattenObject(d.c[i].v, <<>>)],
                          ExportHeaders([i \in 1..Len(d.c) |-> flattenObject(d.c[i].v, <<>>)]))

(***************************************************************************)
(* getDepth, page.tsx:1094-1107.                                           *)
(***************************************************************************)
Max(S) == CHOOSE x \in S : \A y \in S : y <= x

\* mutant: the depth along the first child instead of the maximum
RECURSIVE getDepthFirstChild(_, _)
getDepthFirstChild(obj, currentDepth) ==
  IF obj.t = "null" \/ TypeOf(obj) # "object" THEN currentDepth
  ELSE IF Len(obj.c) = 0 THEN currentDepth
  ELSE getDepthFirstChild(obj.c[1].v, currentDepth + 1)
RECURSIVE getDepth(_, _)
getDepth(obj, currentDepth) ==
  IF obj.t = "null" \/ TypeOf(obj) # "object" THEN currentDepth
  ELSE IF Len(obj.c) = 0 THEN currentDepth
  ELSE Max({ getDepth(obj.c[i].v, currentDepth + 1) : i \in 1..Len(obj.c) })

(***************************************************************************)
(* Inputs of the table builder.                                            *)
(***************************************************************************)
\* the member keys of a record, in document order
RecordKeySeqs ==
  { <<>>, <<"a">>, <<"b">>, <<"2">>, <<"10">>, <<"toString">>,
    <<"a", "b">>, <<"b", "a">>, <<"b", "10">>, <<"10", "2">>, <<"2", "10">>,
    <<"a", "toString">> }

\* the record with these keys; the j-th member holds the number j
RecordOf(keys) == Obj([j \in 1..Len(keys) |-> Member(keys[j], Num(j))])

RecordSources == { RecordOf(keys) : keys \in RecordKeySeqs }
OtherSources == { Null, Num(7), Arr(<<Num(1)>>) }
ElementSources == RecordSources \cup OtherSources

SeqsUpTo(S, n) == UNION { [1..m -> S] : m \in 0..n }

TableSources ==
  { Arr(items) : items \in SeqsUpTo(ElementSources, MaxItems) }
    \cup RecordSources \cup { Str("x") }

ExcludeSets == { {}, {"a", "2"} }

NoTable == <<>>
NoView == <<>>
NoCopy == <<>>
NoExport == <<>>
NoDepth == <<>>
NoError == <<>>
NoReads == <<>>
NoToggles == [id \in {} |-> 0]

\* the text of a document: what the user typed or pasted to have it parsed
TextOf(document) == JSONStringify(Units(document), <<>>, <<>>)

(***************************************************************************)
(* SpecTable: getTableStructure applied to every input.                    *)
(***************************************************************************)
InitTable ==
  /\ source \in TableSources
  /\ data = JSONParse(source)
  /\ excludeKeys \in ExcludeSets
  /\ collapsedTables = {}
  /\ table = NoTable
  /\ view = NoView
  /\ clipboard = NoCopy
  /\ csv = NoExport
  /\ depth = NoDepth
  /\ jsonInput = TextOf(source)
  /\ error = NoError
  /\ reads = NoReads
  /\ timers = {}
  /\ toggles = NoToggles

BuildTable ==
  /\ table = NoTable
  /\ table' = <<getTableStructure(data, excludeKeys)>>
  /\ UNCHANGED <<source, data, excludeKeys, collapsedTables, view, clipboard, csv, depth,
                 jsonInput, error, reads, timers, toggles>>

NextTable == BuildTable

SpecTable == InitTable /\ [][NextTable]_vars

(***************************************************************************)
(* Inputs of the renderers: documents built around one row object that     *)
(* may hold Packages and Vulnerabilities members of several shapes.        *)
(***************************************************************************)
\* what a Packages / Vulnerabilities member may hold: an array of records,
\* an empty array, an object, an array of primitives, an array holding null
MemberShapes ==
  { Arr(<<Obj(<<Member("n", Num(1))>>)>>), Arr(<<>>), Obj(<<Member("x", Num(1))>>),
    Arr(<<Num(1)>>), Arr(<<Null>>) }

NameMember == Member("Name", Str("x"))

RowSources ==
  { Obj(<<NameMember>>) }
    \cup { Obj(<<NameMember, Member(k, p)>>) : k \in PackagesAndVulnerabilities, p \in MemberShapes }
    \cup { Obj(<<NameMember, Member("Packages", p), Member("Vulnerabilities", v)>>) :
             p \in MemberShapes, v \in MemberShapes }
    \cup { Obj(<<NameMember, Member("Vulnerabilities", v), Member("Packages", p)>>) :
             p \in MemberShapes, v \in MemberShapes }

\* the places of the document a row object is put at
Placements(row) ==
  { row,
    Arr(<<row>>),
    Arr(<<Num(1), row>>),
    Obj(<<Member("Results", Arr(<<row>>))>>),
    Obj(<<Member("a", Arr(<<row>>))>>),
    Obj(<<Member("cfg", row)>>),
    Obj(<<Member("a", Arr(<<Obj(<<Member("cfg", row)>>)>>))>>),
    Arr(<<Obj(<<Member("Results", Arr(<<row>>))>>)>>) }

\* a top-level field named k holding an array of records
TopLevelFields ==
  { Obj(<<Member(k, Arr(<<Obj(<<Member("n", Num(1))>>)>>))>>) :
      k \in {"Packages", "Vulnerabilities", "Results", "a"} }

\* a row that holds both tables
FullRow ==
  Obj(<<NameMember, Member("Packages", Arr(<<Obj(<<Member("n", Num(1))>>)>>)),
        Member("Vulnerabilities", Arr(<<Obj(<<Member("n", Num(1))>>)>>))>>)

\* a document whose top-level fields Packages and Results hold tables of such rows
TwoFields ==
  { Obj(<<Member("Packages", Arr(<<FullRow>>)), Member("Results", Arr(<<FullRow>>))>>) }

\* a table whose row holds both tables as cells and, in its cell cfg, an
\* object that holds both
CellsAndGroup ==
  { Arr(<<Obj(<<Member("Packages", Arr(<<Obj(<<Member("n", Num(1))>>)>>)),
               Member("Vulnerabilities", Arr(<<Obj(<<Member("n", Num(1))>>)>>)),
               Member("cfg", FullRow)>>)>>) }

\* rows of longer tables
FewRows ==
  { Obj(<<NameMember>>),
    Obj(<<Member("Packages", Arr(<<Obj(<<Member("n", Num(1))>>)>>)), NameMember>>),
    Obj(<<Member("b", Arr(<<Num(1), Null>>)), Member("a", Arr(<<Arr(<<Num(1)>>)>>)),
          Member("x", Arr(<<>>))>>) }

LongTables ==
  UNION { { Arr(rows), Obj(<<Member("Results", Arr(rows))>>) } :
            rows \in SeqsUpTo(FewRows, MaxItems) }

PlainSources ==
  { Null, Num(0), Num(1), Str("x"), Str(""), Scalar("boolean", "false"),
    Scalar("boolean", "true"), Arr(<<>>), Obj(<<>>), Arr(<<Num(1), Null>>),
    Arr(<<Null>>), Arr(<<Arr(<<Num(1)>>)>>),
    Obj(<<Member("a", Num(1)), Member("b", Arr(<<>>))>>),
    Obj(<<Member("a", Arr(<<Arr(<<Num(1)>>)>>))>>) }

\* the elements of the arrays that are exported: records whose values are
\* nested, need quoting, are empty or collide, and elements that are no records
ExportRecords ==
  { Obj(<<Member("a", Obj(<<Member("b", Num(1)), Member("c", Num(2))>>))>>),
    Obj(<<Member("a", Arr(<<Obj(<<Member("x", Num(1))>>)>>))>>),
    Obj(<<Member("a", Str("x,y")), Member("b", Num(2))>>),
    Obj(<<Member("a", Str("q\"q")), Member("b", Str("l\nl"))>>),
    Obj(<<Member("a", Null), Member("b", Arr(<<>>)), Member("c", Str(""))>>),
    Obj(<<Member("a", Arr(<<Num(1), Str("x")>>)), Member("b", Arr(<<Arr(<<Num(1)>>)>>)),
          Member("c", Arr(<<Num(1), Null>>))>>),
    Obj(<<Member("a", Obj(<<>>)), Member("b", Scalar("boolean", "true"))>>),
    Obj(<<>>),
    Obj(<<Member("a.b", Num(1)), Member("a", Obj(<<Member("b", Num(2))>>))>>),
    Obj(<<Member("a,b", Num(1))>>),
    Obj(<<Member("toString", Num(1))>>),
    Obj(<<Member("__proto__", Num(1)), Member("x", Num(2))>>) }
ExportElements == ExportRecords \cup { Null, Num(1), Str("x"), Arr(<<Num(7)>>) }

\* the arrays of at most n elements of S
RECURSIVE ArraysOf(_, _)
ArraysOf(S, n) ==
  IF n = 0 THEN {<<>>}
  ELSE ArraysOf(S, n - 1) \cup { Append(a, e) : a \in ArraysOf(S, n - 1), e \in S }

\* the documents whose tables are exported: arrays at the top level, a record
\* as a nested object, an array of records as a nested table, and a
\* Packages table beneath a row of Results; and documents of every depth
\* up to three
ExportSources ==
  { Arr(a) : a \in ArraysOf(ExportElements, MaxExported) }
    \cup { Obj(<<Member("cfg", r)>>) : r \in ExportRecords }
    \cup { Obj(<<Member("x", Arr(<<r>>))>>) : r \in ExportRecords }
    \cup { Obj(<<Member("Results", Arr(<<Obj(<<Member("Packages", Arr(<<e>>))>>)>>))>>) :
             e \in ExportElements }
    \cup { Null, Num(1), Str("x"), Obj(<<Member("a", Num(1))>>),
           Obj(<<Member("a", Obj(<<Member("b", Arr(<<Num(1), Num(2)>>))>>))>>),
           Obj(<<Member("a", Obj(<<Member("b", Arr(<<Num(1), Num(2)>>))>>)),
                 Member("b", Num(1))>>) }

ViewSources ==
  (UNION { Placements(row) : row \in RowSources })
    \cup TopLevelFields \cup TwoFields \cup CellsAndGroup \cup LongTables \cup PlainSources

(***************************************************************************)
(* SpecView: the output section rendered for every document, and table     *)
(* headers toggled.                                                        *)
(***************************************************************************)
\* every node of a tree, parents before children, in document order
RECURSIVE NodesOf(_)
RECURSIVE NodesFrom(_, _)
NodesFrom(kids, i) ==
  IF i > Len(kids) THEN <<>> ELSE NodesOf(kids[i]) \o NodesFrom(kids, i + 1)
NodesOf(n) == <<n>> \o NodesFrom(n.kids, 1)

\* the identifiers of the collapsible tables of a tree
RECURSIVE CollapsibleIds(_)
CollapsibleIds(n) ==
  (IF n.kind = "CollapsibleTable" THEN {n.tableId} ELSE {})
    \cup UNION { CollapsibleIds(n.kids[i]) : i \in 1..Len(n.kids) }

\* lines 1057 and 1083: the stats section shows getDepth(parsedData) when
\* parsedData is truthy
Stats(parsedData) == IF Truthy(parsedData) THEN <<getDepth(parsedData, 0)>> ELSE NoDepth

Rendered == view # NoView
TheView == view[1]

InitView ==
  /\ source \in ViewSources
  /\ data = JSONParse(source)
  /\ excludeKeys = {}
  /\ collapsedTables = {}
  /\ table = NoTable
  /\ view = NoView
  /\ clipboard = NoCopy
  /\ csv = NoExport
  /\ depth = NoDepth
  /\ jsonInput = TextOf(source)
  /\ error = NoError
  /\ reads = NoReads
  /\ timers = {}
  /\ toggles = NoToggles

\* lines 799-805: !jsonInput.trim() and error, the tests the output section
\* starts with
Output(parsedData, cs, text, err) == HomeOutput(Blank(text), err # NoError, parsedData, cs)

\* Home renders its output section from parsedData and collapsedTables
Render ==
  /\ view = NoView
  /\ view' = <<Output(data, collapsedTables, jsonInput, error)>>
  /\ depth' = Stats(data)
  /\ UNCHANGED <<source, data, excludeKeys, collapsedTables, table, clipboard, csv,
                 jsonInput, error, reads, timers, toggles>>

\* page.tsx:279-289, from the header of a rendered collapsible table; the
\* state change renders Home again (the stats section shows the same depth)
Toggled(id) == IF id \in DOMAIN toggles THEN toggles[id] ELSE 0

\* mutant: the branch newSet.delete(tableId) of line 283 forgotten
FlippedAddOnly(prev, tableId) == prev \cup {tableId}
\* lines 280-288: the set the updater passed to setCollapsedTables returns
Flipped(prev, tableId) ==
  IF tableId \in prev THEN prev \ {tableId} ELSE prev \cup {tableId}

toggleTable(tableId) ==
  /\ collapsedTables' = Flipped(collapsedTables, tableId)
  /\ Cardinality(collapsedTables') <= MaxCollapsed
  /\ Toggled(tableId) < MaxToggles
  /\ toggles' = [id \in DOMAIN toggles \cup {tableId} |->
                   IF id = tableId THEN Toggled(tableId) + 1 ELSE toggles[id]]
  /\ view' = <<Output(data, collapsedTables', jsonInput, error)>>
  /\ UNCHANGED <<source, data, excludeKeys, table, clipboard, csv, depth,
                 jsonInput, error, reads, timers>>

\* the headers that can be clicked are those of the rendered collapsible tables
Toggle ==
  /\ Rendered
  /\ \E tableId \in CollapsibleIds(TheView) : toggleTable(tableId)

\* the rows of a tree that carry a Copy button
RECURSIVE CopyRows(_)
CopyRows(n) ==
  (IF n.kind = "Row" /\ n.copy # <<>> THEN {n} ELSE {})
    \cup UNION { CopyRows(n.kids[i]) : i \in 1..Len(n.kids) }

\* the number of copies written so far
Copies == IF clipboard = NoCopy THEN 0 ELSE clipboard[1].copy

\* mutant: a copy that also expands every table
copyRecordExpanding(record, copyId, written) ==
  /\ Copies < MaxCopies
  /\ clipboard' =
       IF written
         THEN <<[record |-> record,
                 text |-> JSONStringify(Units(record), <<32, 32>>, <<>>),
                 copiedIndex |-> <<copyId>>,
                 copy |-> Copies + 1]>>
       ELSE clipboard
  /\ timers' = IF written THEN timers \cup {Copies + 1} ELSE timers
  /\ collapsedTables' = {}
  /\ UNCHANGED <<source, data, excludeKeys, table, view, csv, depth,
                 jsonInput, error, reads, toggles>>
\* page.tsx:292-302; written says whether navigator.clipboard.writeText
\* resolved: a rejection is caught and logged, nothing else happens.  Line
\* 298 sets a timeout of its own after every copy and clears none.
copyRecord(record, copyId, written) ==
  /\ Copies < MaxCopies
  /\ clipboard' =
       IF written
         THEN <<[record |-> record,
                 text |-> JSONStringify(Units(record), <<32, 32>>, <<>>),
                 copiedIndex |-> <<copyId>>,
                 copy |-> Copies + 1]>>
       ELSE clipboard
  /\ timers' = IF written THEN timers \cup {Copies + 1} ELSE timers
  /\ UNCHANGED <<source, data, excludeKeys, collapsedTables, table, view, csv, depth,
                 jsonInput, error, reads, toggles>>

\* a click on the Copy button of a row, lines 229, 478, 899 and 1019
Copy ==
  /\ Rendered
  /\ \E n \in CopyRows(TheView) : \E written \in BOOLEAN : copyRecord(n.copy[1], n.copyId, written)

\* line 298: setTimeout(() => setCopiedIndex(null), 2000); a timeout fires
\* once, two seconds after the copy that set it, so the oldest fires first
CopiedExpires ==
  \E timer \in timers :
    /\ \A other \in timers : timer <= other
    /\ timers' = timers \ {timer}
    /\ clipboard' = <<[clipboard[1] EXCEPT !.copiedIndex = <<>>]>>
    /\ UNCHANGED <<source, data, excludeKeys, collapsedTables, table, view, csv, depth,
                   jsonInput, error, reads, toggles>>

NextView == Render \/ Toggle

SpecView == InitView /\ [][NextView]_vars

(***************************************************************************)
(* SpecClicks: the output section rendered for documents that hold tables  *)
(* of every kind, and every button of it clicked: the headers of the       *)
(* collapsible tables, Copy (with its timeouts firing) and Export CSV.     *)
(***************************************************************************)
ClickSources ==
  Placements(FullRow) \cup Placements(Obj(<<NameMember>>)) \cup TopLevelFields
    \cup CellsAndGroup

InitClicks ==
  /\ source \in ClickSources
  /\ data = JSONParse(source)
  /\ excludeKeys = {}
  /\ collapsedTables = {}
  /\ table = NoTable
  /\ view = NoView
  /\ clipboard = NoCopy
  /\ csv = NoExport
  /\ depth = NoDepth
  /\ jsonInput = TextOf(source)
  /\ error = NoError
  /\ reads = NoReads
  /\ timers = {}
  /\ toggles = NoToggles


(***************************************************************************)
(* SpecExport: the output section rendered for every document, and its     *)
(* Export CSV buttons clicked.                                             *)
(***************************************************************************)
\* the arrays the Export CSV buttons of a tree pass to exportToCSV: lines 170
\* and 404 (value), 844 ([value]) and 953 (parsedData)
RECURSIVE ExportButtons(_)
ExportButtons(n) ==
  (CASE n.kind \in {"Table", "CollapsibleTable"} -> {n.arg}
     [] n.kind = "KeyValueTable" ->
          IF IsPlainObject(n.arg) /\ Len(ObjectKeys(n.arg)) > 0 THEN {Arr(<<n.arg>>)} ELSE {}
     [] n.kind = "StandardTable" ->
          IF IsArray(n.arg) /\ Length(n.arg) > 0 THEN {n.arg} ELSE {}
     [] OTHER -> {})
    \cup UNION { ExportButtons(n.kids[i]) : i \in 1..Len(n.kids) }

InitExport ==
  /\ source \in ExportSources
  /\ data = JSONParse(source)
  /\ excludeKeys = {}
  /\ collapsedTables = {}
  /\ table = NoTable
  /\ view = NoView
  /\ clipboard = NoCopy
  /\ csv = NoExport
  /\ depth = NoDepth
  /\ jsonInput = TextOf(source)
  /\ error = NoError
  /\ reads = NoReads
  /\ timers = {}
  /\ toggles = NoToggles

\* a click on an Export CSV button
Export ==
  /\ Rendered
  /\ \E d \in ExportButtons(TheView) : csv' = <<exportToCSV(Units(d))>>
  /\ UNCHANGED <<source, data, excludeKeys, collapsedTables, table, view, clipboard, depth,
                 jsonInput, error, reads, timers, toggles>>

NextExport == Render \/ Export

SpecExport == InitExport /\ [][NextExport]_vars

NextClicks == Render \/ Toggle \/ Copy \/ CopiedExpires \/ Export

SpecClicks == InitClicks /\ [][NextClicks]_vars

(***************************************************************************)
(* SpecSession: the page from its first render on, the text edited and     *)
(* cleared, files uploaded, and table headers toggled.  Every handler ends *)
(* with Home rendered again from the new state.                            *)
(***************************************************************************)
\* lines 20 and 22: the message of the SyntaxError JSON.parse throws, which
\* names the place the parser stopped at
ParserMessage(r) == [text |-> "SyntaxError", at |-> r.next]
\* lines 61, 75 and 81: the messages of handleFileUpload
Message(text) == [text |-> text, at |-> 0]

\* lines 12-26: parsedData and the error its computation sets, r being the
\* outcome of JSON.parse(text)
parsedData(text, r) ==
  IF Blank(text) THEN [document |-> Null, error |-> NoError]
  ELSE IF r.ok THEN [document |-> r.v, error |-> NoError]
  ELSE [document |-> Null, error |-> <<ParserMessage(r)>>]

\* Home rendered with jsonInput set to text: the computation of lines 12-26
\* runs, memo being its outcome, and sets error
SetJsonInput(text, memo) ==
  /\ jsonInput' = text
  /\ source' = memo.document
  /\ data' = JSONParse(memo.document)
  /\ error' = memo.error
  /\ view' = <<Output(JSONParse(memo.document), collapsedTables, text, memo.error)>>
  /\ depth' = Stats(JSONParse(memo.document))
  /\ UNCHANGED <<excludeKeys, collapsedTables, table, clipboard, csv, timers, toggles>>

\* Home rendered with error set to err and jsonInput as it was: parsedData
\* is not computed again (line 26, its dependency is jsonInput)
SetError(err) ==
  /\ error' = <<err>>
  /\ view' = <<Output(data, collapsedTables, jsonInput, <<err>>)>>
  /\ UNCHANGED <<source, data, excludeKeys, collapsedTables, table, clipboard, csv, depth,
                 jsonInput, timers, toggles>>

\* the documents of a session: tables with the same identifier in two
\* documents, a row with two collapsible tables, and a number
SessionSources ==
  { Arr(<<Obj(<<Member("Packages", Arr(<<Obj(<<Member("n", Num(1))>>)>>))>>)>>),
    Arr(<<Obj(<<Member("Packages", Arr(<<Obj(<<Member("n", Num(2))>>)>>))>>)>>),
    Arr(<<FullRow>>),
    Num(1) }
\* texts that are no JSON: [1 and {"a":1,}
BrokenTexts == { <<91, 49>>, <<123, 34, 97, 34, 58, 49, 44, 125>> }
\* the texts typed into the input area
Texts == { TextOf(d) : d \in SessionSources } \cup BrokenTexts \cup { <<>>, <<32, 10>> }
\* the contents of the files: a document with white space around it, a
\* broken text and an empty file
Contents ==
  { <<32>> \o TextOf(Arr(<<FullRow>>)) \o <<10>>, <<91, 49>>, <<>> }
\* the names a.json and a.txt, the types application/json and the empty one
Files ==
  [name : { <<97, 46, 106, 115, 111, 110>>, <<97, 46, 116, 120, 116>> },
   type : { <<97, 112, 112, 108, 105, 99, 97, 116, 105, 111, 110, 47, 106, 115, 111, 110>>,
            <<>> },
   content : Contents]

\* String.prototype.endsWith and includes
EndsWith(str, suffix) ==
  Len(str) >= Len(suffix) /\ SubSeq(str, Len(str) - Len(suffix) + 1, Len(str)) = suffix
Includes(str, part) ==
  \E i \in 1..(Len(str) - Len(part) + 1) : SubSeq(str, i, i + Len(part) - 1) = part

InitSession ==
  /\ jsonInput = <<>>
  /\ error = NoError
  /\ source = Null
  /\ data = Null
  /\ excludeKeys = {}
  /\ collapsedTables = {}
  /\ table = NoTable
  /\ view = <<Output(Null, {}, <<>>, NoError)>>
  /\ clipboard = NoCopy
  /\ csv = NoExport
  /\ depth = NoDepth
  /\ reads = NoReads
  /\ timers = {}
  /\ toggles = NoToggles

\* line 774: the text of the input area changes
Edit ==
  \E text \in Texts :
    /\ text # jsonInput
    /\ SetJsonInput(text, parsedData(text, ParseText(text)))
    /\ UNCHANGED reads

\* lines 51-54; the error is null after it whether or not the text changed
handleClear ==
  /\ SetJsonInput(<<>>, parsedData(<<>>, ParseText(<<>>)))
  /\ UNCHANGED reads

\* lines 56-85 up to reader.readAsText(file), for a file that was chosen;
\* the tests of line 60 look for .json and json
handleFileUpload ==
  \E file \in Files :
    IF /\ ~EndsWith(file.name, <<46, 106, 115, 111, 110>>)
       /\ ~Includes(file.type, <<106, 115, 111, 110>>)
      THEN SetError(Message("Please select a JSON file")) /\ UNCHANGED reads
    ELSE /\ Len(reads) < MaxReads
         /\ reads' = Append(reads, file)
         /\ UNCHANGED <<source, data, excludeKeys, collapsedTables, table, view, clipboard,
                        csv, depth, jsonInput, error, timers, toggles>>

\* the reads in flight without the i-th
Completed(i) == SubSeq(reads, 1, i - 1) \o SubSeq(reads, i + 1, Len(reads))

\* mutant: setJsonInput(content) moved before JSON.parse(content)
onloadSetFirst(content, r) == SetJsonInput(content, parsedData(content, r))
\* lines 67-78, reader.onload: r is the outcome of JSON.parse(content)
onload(content, r) ==
  IF r.ok THEN SetJsonInput(content, parsedData(content, r))
  ELSE SetError(ParserMessage(r))
FileLoaded ==
  \E i \in 1..Len(reads) :
    /\ onload(reads[i].content, ParseText(reads[i].content))
    /\ reads' = Completed(i)

\* lines 80-82, reader.onerror
FileError ==
  \E i \in 1..Len(reads) :
    /\ SetError(Message("Error reading file"))
    /\ reads' = Completed(i)

NextSession == Edit \/ handleClear \/ handleFileUpload \/ FileLoaded \/ FileError \/ Toggle

SpecSession == InitSession /\ [][NextSession]_vars

(***************************************************************************)
(* Claims about getTableStructure, checked under SpecTable.                *)
(***************************************************************************)
Built == table # NoTable
TheGrid == table[1]
Range(f) == { f[i] : i \in DOMAIN f }
AllRecords(d) == IsArray(d) /\ Length(d) > 0 /\ \A i \in 1..Length(d) : Items(d)[i].t = "object"
KeyUnion(d, exclude) == (UNION { Range(ObjectKeys(Items(d)[i])) : i \in 1..Length(d) }) \ exclude
Position(seq, x) == CHOOSE i \in 1..Len(seq) : seq[i] = x

\* C1: for every value and every excludeKeys, every row of the grid has exactly
\* Len(headers) cells and headers holds no duplicates.
C1_RowsMatchHeaders ==
  Built =>
    /\ ~TheGrid.threw
    /\ \A i \in 1..Len(TheGrid.rows) : Len(TheGrid.rows[i]) = Len(TheGrid.headers)
    /\ \A i, j \in 1..Len(TheGrid.headers) :
         TheGrid.headers[i] = TheGrid.headers[j] => i = j

\* C1 witness: a grid of records built in which some record lacks one of the
\* two or more columns
C1_Witness ==
  /\ Built /\ AllRecords(data)
  /\ Len(TheGrid.headers) >= 2
  /\ \E i \in 1..Length(data) : \E j \in 1..Len(TheGrid.headers) :
       ~HasOwn(Items(data)[i], TheGrid.headers[j])

\* C2: for a non-empty array of records the headers are the union of the
\* element keys minus excludeKeys, there is one row per element in element
\* order, and a record that lacks a header key has the missing marker
\* (undefined) in that cell.
C2_ColumnUnion ==
  (Built /\ AllRecords(data)) =>
    /\ Range(TheGrid.headers) = KeyUnion(data, excludeKeys)
    /\ Len(TheGrid.rows) = Length(data)
    /\ \A i \in 1..Length(data) : \A j \in 1..Len(TheGrid.headers) :
         TheGrid.rows[i][j] =
           IF HasOwn(Items(data)[i], TheGrid.headers[j])
             THEN OwnValue(Items(data)[i], TheGrid.headers[j])
             ELSE Undefined

\* the source with its records in another order, and with the members of
\* every record in reverse document order
PermuteItems(src, p) == Arr([i \in 1..Len(src.c) |-> src.c[p[i]].v])
ReverseMembers(v) == [v EXCEPT !.c = [j \in 1..Len(v.c) |-> v.c[Len(v.c) + 1 - j]]]
ReverseEachRecord(src) == Arr([i \in 1..Len(src.c) |-> ReverseMembers(src.c[i].v)])
Perms(n) == { p \in [1..n -> 1..n] : \A i, j \in 1..n : p[i] = p[j] => i = j }

\* C3: for an array of records the headers are in strictly ascending
\* code-unit order, and an input that differs only in the order of the
\* records or of the keys inside the records gives the same headers.
C3_DeterministicHeaders ==
  (Built /\ AllRecords(data)) =>
    /\ \A i \in 1..Len(TheGrid.headers) - 1 :
         StrLess(TheGrid.headers[i], TheGrid.headers[i + 1])
    /\ \A p \in Perms(Len(source.c)) :
         getTableStructure(JSONParse(PermuteItems(source, p)), excludeKeys).headers
           = TheGrid.headers
    /\ getTableStructure(JSONParse(ReverseEachRecord(source)), excludeKeys).headers
         = TheGrid.headers

\* C3 witness: a grid of two columns built from records that list a greater
\* key before a smaller one
C3_Witness ==
  /\ Built /\ AllRecords(data)
  /\ Len(TheGrid.headers) >= 2
  /\ \E i \in 1..Length(data) :
       LET ks == ObjectKeys(Items(data)[i])
       IN  Len(ks) = 2 /\ StrLess(ks[2], ks[1])

\* C4 as claimed: for an object the grid has the headers Key, Value and one
\* row (key, value) per member whose key is not in excludeKeys, in the order
\* of the members in the document.
C4_InsertionOrder ==
  (Built /\ data.t = "object") =>
    LET kept == SelectSeq(source.c, LAMBDA m : m.k \notin excludeKeys)
    IN  /\ TheGrid.headers = <<"Key", "Value">>
        /\ TheGrid.rows = [i \in 1..Len(kept) |-> <<Str(kept[i].k), JSONParse(kept[i].v)>>]

\* C4 as amended: one row (key, value) per member whose key is not in
\* excludeKeys; the rows of integer index keys come first, in ascending
\* numeric order, then the rows of the other keys in document order.
C4_OwnPropertyOrder ==
  (Built /\ data.t = "object") =>
    LET srcKeys == [i \in 1..Len(source.c) |-> source.c[i].k]
        rowKey(i) == TheGrid.rows[i][1].s
    IN  /\ TheGrid.headers = <<"Key", "Value">>
        /\ \A i \in 1..Len(TheGrid.rows) :
             /\ Len(TheGrid.rows[i]) = 2
             /\ TheGrid.rows[i][1].t = "string"
             /\ rowKey(i) \in Range(srcKeys) \ excludeKeys
             /\ TheGrid.rows[i][2] = JSONParse(source.c[Position(srcKeys, rowKey(i))].v)
        /\ { rowKey(i) : i \in 1..Len(TheGrid.rows) } = Range(srcKeys) \ excludeKeys
        /\ \A i, j \in 1..Len(TheGrid.rows) : i < j =>
             IF IsIndexKey(rowKey(i))
               THEN IsIndexKey(rowKey(j)) => IndexValue(rowKey(i)) < IndexValue(rowKey(j))
               ELSE /\ ~IsIndexKey(rowKey(j))
                    /\ Position(srcKeys, rowKey(i)) < Position(srcKeys, rowKey(j))

\* C4 witness: a key-value grid built from an object whose document lists
\* the index key 10 before the index key 2, with a member excluded
C4_Witness ==
  /\ Built /\ data.t = "object"
  /\ Len(source.c) = 2 /\ source.c[1].k = "10" /\ source.c[2].k = "2"
  /\ excludeKeys # {}
  /\ Len(TheGrid.rows) = 1

\* C5: for an array that is empty or holds an element that is not a record,
\* the headers are Index, Value, there is one row (i, v[i]) per element in
\* order, and excludeKeys has no effect.
C5_IndexValue ==
  (Built /\ IsArray(data) /\ ~AllRecords(data)) =>
    /\ TheGrid.headers = <<"Index", "Value">>
    /\ Len(TheGrid.rows) = Length(data)
    /\ \A i \in 1..Length(data) : TheGrid.rows[i] = <<Num(i - 1), data.c[i].v>>
    /\ TheGrid = getTableStructure(data, {})

\* C5 witness: the grid of an array mixing a record and a non-record, built
\* with a non-empty excludeKeys that names a key of the record
C5_Witness ==
  /\ Built /\ IsArray(data) /\ Length(data) = 2
  /\ \E i, j \in 1..2 :
       /\ Items(data)[i].t = "object" /\ Items(data)[j].t # "object"
       /\ \E k \in excludeKeys : HasOwn(Items(data)[i], k)

(***************************************************************************)
(* Claims about the renderers, checked under SpecView.                     *)
(***************************************************************************)
Renderers ==
  { "renderCellWithNestedArrays", "renderCellValue", "renderNestedTable",
    "renderCollapsibleTable" }

\* every node of the rendered tree
ViewNodes == Range(NodesOf(TheView))
\* the nodes below n
Below(n) == Range(NodesFrom(n.kids, 1))

\* the calls a node's function made: the nearest nodes below it that stand
\* for a function call
RECURSIVE Calls(_)
Calls(n) ==
  UNION { IF n.kids[i].fn # "" THEN {n.kids[i]} ELSE Calls(n.kids[i]) : i \in 1..Len(n.kids) }

\* the values inside v, v included; the number of values inside v
RECURSIVE SubValues(_)
SubValues(v) == {v} \cup UNION { SubValues(v.c[i].v) : i \in 1..Len(v.c) }
StrictSubValues(v) == UNION { SubValues(v.c[i].v) : i \in 1..Len(v.c) }
RECURSIVE SizeFrom(_, _)
SizeFrom(ms, i) == IF i > Len(ms) THEN 0 ELSE 1 + SizeFrom(ms[i].v.c, 1) + SizeFrom(ms, i + 1)
Size(v) == 1 + SizeFrom(v.c, 1)
IsScalar(v) == v.t \notin {"array", "object"}

\* C6 as claimed: every render returns a tree without a thrown exception, and
\* every call one of the four render functions makes to one of them is on a
\* strict sub-value of its own argument (the scalar cells a grid makes up
\* are let through).
C6_StrictSubValueCalls ==
  Rendered =>
    \A n \in ViewNodes :
      /\ n.kind # "Throw"
      /\ n.fn \in Renderers =>
           \A m \in Calls(n) : m.arg \in StrictSubValues(n.arg) \/ IsScalar(m.arg)

\* C6 as amended: every render returns a tree without a thrown exception;
\* every call one of the four render functions makes is on its own argument,
\* on a value inside it, or on a scalar the grid made up (a row index, an
\* entry key, the marker of a missing cell); and whenever a function is
\* entered again below one of its own calls, its argument is strictly smaller.
C6_Totality ==
  Rendered =>
    \A n \in ViewNodes :
      /\ n.kind # "Throw"
      /\ n.fn \in Renderers =>
           /\ \A m \in Calls(n) : m.arg \in SubValues(n.arg) \/ IsScalar(m.arg)
           /\ \A m \in Below(n) : m.fn = n.fn => Size(m.arg) < Size(n.arg)

\* C6 witness: a render in which renderNestedTable has called renderCellValue,
\* which has called renderCellWithNestedArrays on its own argument, which has
\* called renderCollapsibleTable, below which an array holding null is shown
C6_Witness ==
  /\ Rendered
  /\ \E t, n, m, c \in ViewNodes :
       /\ t.fn = "renderNestedTable" /\ n \in Calls(t)
       /\ n.fn = "renderCellValue" /\ m \in Calls(n)
       /\ m.fn = "renderCellWithNestedArrays" /\ m.arg = n.arg /\ c \in Calls(m)
       /\ c.fn = "renderCollapsibleTable"
  /\ \E c \in ViewNodes :
       /\ c.fn = "renderCollapsibleTable"
       /\ \E i \in 1..Length(c.arg) : Items(c.arg)[i] = Null

\* the places of a value: every value inside it with the keys that lead to it
RECURSIVE Places(_, _)
Places(v, path) ==
  {[path |-> path, v |-> v]}
    \cup UNION { Places(v.c[i].v, path \o <<v.c[i].k>>) : i \in 1..Len(v.c) }

\* a nested array of objects or a non-empty nested object
NestedStructure(p) ==
  /\ p.path # <<>>
  /\ IsObjectArray(p.v) \/ (IsPlainObject(p.v) /\ Len(ObjectKeys(p.v)) > 0)

\* C7: with no table collapsed, every nested array of objects and every
\* non-empty nested object of the document has a node of the rendered tree
\* that shows it (a node at its place, on its value).
C7_NoHide ==
  (Rendered /\ collapsedTables = {}) =>
    \A p \in Places(data, <<>>) :
      NestedStructure(p) => \E n \in ViewNodes : n.path = p.path /\ n.arg = p.v

\* C8: where an object is rendered as a group (it holds a non-empty array of
\* objects and a key Packages or Vulnerabilities), every entry of the object
\* is in exactly one of tableEntries and otherEntries and is rendered exactly
\* once: the other entries first, as labelled fields in entry order, then the
\* table entries inside one Table group.
C8_Partition ==
  Rendered =>
    \A n \in ViewNodes :
      n.kind = "Group" =>
        LET entries == ObjectEntries(n.arg)
            fields == SelectSeq(n.kids, LAMBDA k : k.kind = "Field")
            groups == SelectSeq(n.kids, LAMBDA k : k.kind = "TableGroup")
        IN  /\ \A i \in 1..Len(entries) :
                 (entries[i] \in Range(TableEntries(entries)))
                   # (entries[i] \in Range(OtherEntries(entries)))
            /\ \A i \in 1..Len(entries) :
                 Cardinality({ j \in 1..Len(fields) : fields[j].key = entries[i].k })
                   + Cardinality({ <<g, j>> \in (1..Len(groups)) \X (1..Len(entries)) :
                                     /\ j <= Len(groups[g].kids)
                                     /\ groups[g].kids[j].key = entries[i].k })
                   = 1
            /\ n.kids = fields \o groups

\* the tables the sections of Home show for the top-level fields of a document
TopLevelTables ==
  IF TheView.kind = "Sections"
    THEN { f.kids[1] : f \in { k \in Range(TheView.kids) : k.kind = "Field" } }
  ELSE {}

\* the dispatch of renderCellWithNestedArrays on an array of objects: one
\* table on the same value, collapsible iff the parent key is Packages or
\* Vulnerabilities
CellDispatch(n) ==
  (n.fn = "renderCellWithNestedArrays" /\ IsObjectArray(n.arg)) =>
    /\ n.kind = "Delegate" /\ Len(n.kids) = 1
    /\ n.kids[1].kind \in {"Table", "CollapsibleTable"}
    /\ n.kids[1].arg = n.arg
    /\ n.kids[1].key = KeyOrArray(n.key)
    /\ (n.kids[1].kind = "CollapsibleTable") = (n.key \in PackagesAndVulnerabilities)

\* what a table on an array of objects is like: a collapsible table has the
\* sort index of its key, a plain table the grid of its value without the
\* columns Packages and Vulnerabilities iff its key is Results
TableShape(n) ==
  /\ n.kind = "CollapsibleTable" =>
       /\ n.index = (IF n.key = "Vulnerabilities" THEN 1 ELSE 2)
       /\ n.grid = <<getTableStructure(n.arg, {})>>
  /\ n.kind = "Table" =>
       /\ n.grid = <<getTableStructure(n.arg, IF n.key = "Results"
                                               THEN PackagesAndVulnerabilities ELSE {})>>
       /\ (n.key = "Results" =>
             \A j \in 1..Len(n.grid[1].headers) :
                n.grid[1].headers[j] \notin PackagesAndVulnerabilities)

\* C9 as claimed: a non-empty array of objects reached with key k, at any
\* place of the document, is a collapsible table (index 2 for Packages, 1 for
\* Vulnerabilities) iff k is Packages or Vulnerabilities, and otherwise a
\* table whose grid leaves out the columns Packages and Vulnerabilities iff k
\* is Results.
C9_DispatchEverywhere ==
  Rendered =>
    \A n \in ViewNodes :
      /\ CellDispatch(n)
      /\ (n.kind \in {"Table", "CollapsibleTable"} /\ IsObjectArray(n.arg)) =>
           /\ (n.kind = "CollapsibleTable") = (n.key \in PackagesAndVulnerabilities)
           /\ TableShape(n)

\* C9 as amended: the rule holds for an array of objects reached through
\* renderCellWithNestedArrays (a table cell, a nested object field, a list
\* item); the table of a top-level field of the document is never
\* collapsible, whatever its key; every other table on an array of objects
\* is collapsible iff its key is Packages or Vulnerabilities; a table that is
\* not collapsible leaves out the columns Packages and Vulnerabilities iff its
\* key is Results.
C9_Dispatch ==
  Rendered =>
    \A n \in ViewNodes :
      /\ CellDispatch(n)
      /\ (n.kind \in {"Table", "CollapsibleTable"} /\ IsObjectArray(n.arg)) =>
           /\ (n.kind = "CollapsibleTable")
                = (n.key \in PackagesAndVulnerabilities /\ n \notin TopLevelTables)
           /\ TableShape(n)

\* C9 witness: a render in which the top-level field Packages is shown as a
\* plain table, a cell of parent key Vulnerabilities as a collapsible table,
\* and the table of Results without the Packages column its rows have
C9_Witness ==
  /\ Rendered
  /\ \E n \in TopLevelTables : n.kind = "Table" /\ n.key = "Packages"
  /\ \E n \in ViewNodes :
       /\ n.fn = "renderCellWithNestedArrays" /\ n.key = "Vulnerabilities"
       /\ IsObjectArray(n.arg) /\ n.kids[1].kind = "CollapsibleTable" /\ n.kids[1].index = 1
  /\ \E n \in ViewNodes :
       /\ n.kind = "Table" /\ n.key = "Results"
       /\ HasOwn(Items(n.arg)[1], "Packages")
       /\ n.grid[1].headers = <<"Name">>

\* what a cell shows once the calls that only pass their argument on are followed
RECURSIVE Delegated(_)
Delegated(c) == IF c.kind = "Delegate" THEN Delegated(c.kids[1]) ELSE c

\* the collapsible tables shown for the members Packages and Vulnerabilities
\* of the value of n, in the order they are listed below n
MemberTables(n) ==
  SelectSeq(NodesFrom(n.kids, 1),
            LAMBDA m : /\ m.kind = "CollapsibleTable"
                       /\ m.path \in { n.path \o <<k>> : k \in PackagesAndVulnerabilities })
LastOf(path) == path[Len(path)]

\* C10 as claimed: wherever collapsible tables of both the Packages and the
\* Vulnerabilities member of one object or one table row are rendered, the
\* Vulnerabilities table is listed before the Packages table.
C10_VulnerabilitiesFirst ==
  Rendered =>
    \A n \in ViewNodes :
      n.kind \in {"Row", "Group"} =>
        \A i, j \in 1..Len(MemberTables(n)) :
          i < j => ~(/\ LastOf(MemberTables(n)[i].path) = "Packages"
                     /\ LastOf(MemberTables(n)[j].path) = "Vulnerabilities")

\* C10 as amended: inside a Table group (of an object, or beneath a table
\* row) only collapsible tables are listed, Vulnerabilities (index 1) before
\* Packages (index 2), whatever the order of the keys in the document; the
\* collapsible tables that are cells of one row are in column order,
\* Packages before Vulnerabilities.
C10_GroupOrder ==
  Rendered =>
    \A n \in ViewNodes :
      /\ n.kind = "TableGroup" =>
           /\ Len(n.kids) >= 1
           /\ \A i \in 1..Len(n.kids) :
                /\ n.kids[i].kind = "CollapsibleTable"
                /\ n.kids[i].key \in PackagesAndVulnerabilities
                /\ n.kids[i].index = (IF n.kids[i].key = "Vulnerabilities" THEN 1 ELSE 2)
           /\ \A i, j \in 1..Len(n.kids) : i < j => n.kids[i].index < n.kids[j].index
      /\ n.kind = "Row" =>
           \A i, j \in 1..Len(n.kids) :
             (/\ i < j
              /\ Delegated(n.kids[i]).kind = "CollapsibleTable"
              /\ Delegated(n.kids[j]).kind = "CollapsibleTable")
               => /\ Delegated(n.kids[i]).key = "Packages"
                  /\ Delegated(n.kids[j]).key = "Vulnerabilities"

\* C10 witness: a render of a document that lists Packages before
\* Vulnerabilities, with a Table group of an object holding both tables and a
\* row holding both as cells
C10_Witness ==
  /\ Rendered
  /\ \E n \in ViewNodes :
       /\ n.kind = "Group"
       /\ \E i, j \in 1..Len(ObjectEntries(n.arg)) :
            /\ i < j
            /\ ObjectEntries(n.arg)[i].k = "Packages"
            /\ ObjectEntries(n.arg)[j].k = "Vulnerabilities"
       /\ \E g \in Range(n.kids) : g.kind = "TableGroup" /\ Len(g.kids) = 2
  /\ \E n \in ViewNodes :
       /\ n.kind = "Row"
       /\ \E i, j \in 1..Len(n.kids) :
            /\ i < j
            /\ Delegated(n.kids[i]).kind = "CollapsibleTable"
            /\ Delegated(n.kids[j]).kind = "CollapsibleTable"

\* an array whose elements are all primitives (null, booleans, numbers, strings)
IsPrimitiveArray(v) == IsArray(v) /\ \A i \in 1..Length(v) : IsScalar(Items(v)[i])

C12_CopyFidelity ==
  clipboard # NoCopy =>
    clipboard[1].record \in { p.v : p \in Places(data, <<>>) }

(***************************************************************************)
(* Claims about the CSV export and getDepth, checked under SpecExport.     *)
(***************************************************************************)
ExportCalled == csv # NoExport
TheExport == csv[1]
\* the call went through to the download
Downloaded == ExportCalled /\ TheExport.downloaded
\* the records among the exported elements
RecordsExported == { i \in 1..Len(TheExport.data.c) : IsPlainObject(TheExport.data.c[i].v) }

\* the flattening as described: the paths of a record with the text of each
RECURSIVE DescribedFlattening(_, _)
DescribedAt(path, value) ==
  IF value.t \in {"null", "undefined"} THEN {[k |-> path, v |-> <<>>]}
  ELSE IF IsArray(value) THEN
    IF Len(value.c) = 0 THEN {[k |-> path, v |-> <<91, 93>>]}
    ELSE IF EveryItemObject(value) THEN {[k |-> path, v |-> JSONStringify(value, <<>>, <<>>)]}
    ELSE {[k |-> path,
           v |-> Join([i \in 1..Len(value.c) |-> StringOf(value.c[i].v)], 1, <<59, 32>>)]}
  ELSE IF IsPlainObject(value) THEN DescribedFlattening(value, path)
  ELSE {[k |-> path, v |-> StringOf(value)]}
DescribedFlattening(obj, prefix) ==
  UNION { DescribedAt(NewKey(prefix, obj.c[i].k), obj.c[i].v) : i \in 1..Len(obj.c) }

\* the dot-paths of the leaves of a record, one per leaf, in document order
RECURSIVE LeafPaths(_, _, _)
LeafPaths(obj, prefix, i) ==
  IF i > Len(obj.c) THEN <<>>
  ELSE (IF IsPlainObject(obj.c[i].v)
          THEN LeafPaths(obj.c[i].v, NewKey(prefix, obj.c[i].k), 1)
          ELSE <<NewKey(prefix, obj.c[i].k)>>)
         \o LeafPaths(obj, prefix, i + 1)
NoTwoAlike(paths) == \A i, j \in 1..Len(paths) : i # j => paths[i] # paths[j]

\* C13 (as claimed): the flattening of an exported record holds, for each of
\* its keys, the path prefix.key with the text the description gives for the
\* value (for records whose leaves have distinct paths)
C13_FlattenMapping ==
  Downloaded =>
    \A i \in RecordsExported :
      NoTwoAlike(LeafPaths(TheExport.data.c[i].v, <<>>, 1)) =>
        { TheExport.flattened[i][j] : j \in 1..Len(TheExport.flattened[i]) }
          = DescribedFlattening(TheExport.data.c[i].v, <<>>)

\* C14 (as claimed): no two leaves of an exported record have the same
\* dot-path
C14_UniquePaths ==
  Downloaded =>
    \A i \in RecordsExported : NoTwoAlike(LeafPaths(TheExport.data.c[i].v, <<>>, 1))

\* the flattened keys of exported element i
FlattenedKeys(i) == { TheExport.flattened[i][j].k : j \in 1..Len(TheExport.flattened[i]) }
\* the value the flattening of element i holds at a path
FlattenedAt(i, path) ==
  TheExport.flattened[i][CHOOSE j \in 1..Len(TheExport.flattened[i]) :
                           TheExport.flattened[i][j].k = path].v

\* C15 (as claimed): the export of a non-empty array of objects has as headers
\* the sorted union of the flattened keys of all records and one row per
\* record in record order, whose cell under a header is the record's flattened
\* value, or the empty string if the record has no such path
C15_HeadersAndRows ==
  (Downloaded /\ RecordsExported = 1..Len(TheExport.data.c)) =>
    /\ { TheExport.headers[h] : h \in 1..Len(TheExport.headers) }
         = UNION { FlattenedKeys(i) : i \in 1..Len(TheExport.flattened) }
    /\ \A h \in 1..(Len(TheExport.headers) - 1) :
         SeqLess(TheExport.headers[h], TheExport.headers[h + 1])
    /\ Len(TheExport.cells) = Len(TheExport.data.c)
    /\ \A i \in 1..Len(TheExport.cells) :
         /\ TheExport.flattened[i] = flattenObject(TheExport.data.c[i].v, <<>>)
         /\ Len(TheExport.cells[i]) = Len(TheExport.headers)
         /\ \A h \in 1..Len(TheExport.headers) :
              TheExport.cells[i][h] =
                IF TheExport.headers[h] \in FlattenedKeys(i)
                  THEN FlattenedAt(i, TheExport.headers[h])
                ELSE <<>>

\* The fixed CSV dialect: a double quote opens or closes a quoted stretch; a
\* comma outside quotes ends a field, a newline outside quotes ends a line.
\* position p of the text lies outside quotes
OutsideQuotes(u, p) == Cardinality({ j \in 1..(p - 1) : u[j] = 34 }) % 2 = 0
\* the positions where the separator c cuts the text
Cuts(u, c) == { p \in 1..Len(u) : u[p] = c /\ OutsideQuotes(u, p) }
\* the k-th smallest position of S
Nth(S, k) == CHOOSE p \in S : Cardinality({ q \in S : q < p }) = k - 1
\* the pieces of the text between the cuts
Pieces(u, S) ==
  [k \in 1..(Cardinality(S) + 1) |->
     SubSeq(u, IF k = 1 THEN 1 ELSE Nth(S, k - 1) + 1,
               IF k = Cardinality(S) + 1 THEN Len(u) ELSE Nth(S, k) - 1)]
\* the fields of a line, and of every line of a text, as they stand in it
SplitLine(line) == Pieces(line, Cuts(line, 44))
SplitCSV(u) == [l \in 1..(Cardinality(Cuts(u, 10)) + 1) |-> SplitLine(Pieces(u, Cuts(u, 10))[l])]

\* the text a field stands for: a quoted field without its quotes and with
\* each doubled quote read as one
RECURSIVE Undouble(_, _)
Undouble(u, i) ==
  IF i > Len(u) THEN <<>>
  ELSE IF u[i] = 34 /\ i < Len(u) /\ u[i + 1] = 34 THEN <<34>> \o Undouble(u, i + 2)
  ELSE <<u[i]>> \o Undouble(u, i + 1)
Wrapped(field) == Len(field) >= 2 /\ field[1] = 34 /\ field[Len(field)] = 34
FieldText(field) ==
  IF Wrapped(field) THEN Undouble(SubSeq(field, 2, Len(field) - 1), 1) ELSE field

\* a comma, a double quote or a newline occurs in the value
NeedsQuotes(value) == \E i \in 1..Len(value) : value[i] \in {44, 34, 10}
PlainLine(value) == \A i \in 1..Len(value) : value[i] \notin {34, 10}
QuotesIn(value) == Cardinality({ i \in 1..Len(value) : value[i] = 34 })

\* the field of the emitted text that holds the cell of record i under header h
EmittedCell(i, h) == SplitCSV(TheExport.content)[i + 1][h]

\* C16: in the emitted text, the cell of a record under a header stands
\* wrapped in double quotes, every double quote of its value doubled, if and
\* only if the value holds a comma, a double quote or a newline; otherwise it
\* stands bare and unchanged (the cell is located by splitting the text, so
\* for header lines that hold no double quote and no newline)
C16_QuotingRule ==
  (Downloaded /\ \A h \in 1..Len(TheExport.headers) : PlainLine(TheExport.headers[h])) =>
    /\ Len(SplitCSV(TheExport.content)) = 1 + Len(TheExport.cells)
    /\ \A i \in 1..Len(TheExport.cells) : \A h \in 1..Len(TheExport.headers) :
         /\ Len(SplitCSV(TheExport.content)[i + 1]) = Len(TheExport.headers)
         /\ IF NeedsQuotes(TheExport.cells[i][h])
              THEN /\ Wrapped(EmittedCell(i, h))
                   /\ FieldText(EmittedCell(i, h)) = TheExport.cells[i][h]
                   /\ Len(EmittedCell(i, h))
                        = Len(TheExport.cells[i][h]) + QuotesIn(TheExport.cells[i][h]) + 2
            ELSE EmittedCell(i, h) = TheExport.cells[i][h]
\* an export whose cells hold a comma, a double quote, a newline, and a cell
\* that needs no quotes
C16_Witness ==
  /\ Downloaded
  /\ \A h \in 1..Len(TheExport.headers) : PlainLine(TheExport.headers[h])
  /\ \A u \in {44, 34, 10} :
       \E i \in 1..Len(TheExport.cells) : \E h \in 1..Len(TheExport.headers) :
         \E j \in 1..Len(TheExport.cells[i][h]) : TheExport.cells[i][h][j] = u
  /\ \E i \in 1..Len(TheExport.cells) : \E h \in 1..Len(TheExport.headers) :
       TheExport.cells[i][h] # <<>> /\ ~NeedsQuotes(TheExport.cells[i][h])

\* C17 (as claimed): the header line and every data line of the emitted text
\* split into the same number of fields
C17_SameWidth ==
  Downloaded =>
    \A l \in 1..Len(SplitCSV(TheExport.content)) :
      Len(SplitCSV(TheExport.content)[l]) = Len(SplitCSV(TheExport.content)[1])

\* C18 (as claimed): a call of exportToCSV with an array that is empty or
\* holds an element that is no object builds no content, triggers no download
\* and raises no exception
C18_NoDataNoOp ==
  (ExportCalled /\ RecordsExported # 1..Len(TheExport.data.c)) =>
    /\ ~TheExport.downloaded
    /\ TheExport.content = <<>>
    /\ ~TheExport.threw

\* C19 (as claimed): no call made for a parsed document raises an exception:
\* the rendered tree holds no call of getTableStructure that threw, the depth
\* of a truthy document is computed, and no export threw
C19_Total ==
  /\ Rendered => /\ \A n \in ViewNodes : n.kind # "Throw"
                 /\ Truthy(data) => depth # NoDepth
  /\ ExportCalled => ~TheExport.threw

\* the bases getDepth is checked at
Bases == 0..2
\* v has no children: a scalar, null, an empty array or an empty object
Childless(v) == Len(v.c) = 0

\* C20: getDepth(v, base) is base when v is a scalar, null, an empty array or
\* an empty object, and otherwise the maximum of getDepth(c, base + 1) over the
\* children c of v; it is never below base; the depth shown for a document is
\* the length of its longest path, 0 for [], 1 for {a:1}, 3 for {a:{b:[1,2]}}
C20_Depth ==
  (Rendered /\ Truthy(data)) =>
    /\ \A p \in Places(data, <<>>) : \A base \in Bases :
         /\ getDepth(p.v, base) >= base
         /\ Childless(p.v) => getDepth(p.v, base) = base
         /\ ~Childless(p.v) =>
              /\ \A i \in 1..Len(p.v.c) : getDepth(p.v.c[i].v, base + 1) <= getDepth(p.v, base)
              /\ \E i \in 1..Len(p.v.c) : getDepth(p.v.c[i].v, base + 1) = getDepth(p.v, base)
    /\ depth # NoDepth
    /\ \A p \in Places(data, <<>>) : Len(p.path) <= depth[1]
    /\ \E p \in Places(data, <<>>) : Len(p.path) = depth[1]
    /\ source = Arr(<<>>) => depth[1] = 0
    /\ source = Obj(<<Member("a", Num(1))>>) => depth[1] = 1
    /\ source = Obj(<<Member("a", Obj(<<Member("b", Arr(<<Num(1), Num(2)>>))>>))>>)
         => depth[1] = 3
\* the document {a:{b:[1,2]}} rendered with the depth 3
C20_Witness ==
  /\ Rendered
  /\ source = Obj(<<Member("a", Obj(<<Member("b", Arr(<<Num(1), Num(2)>>))>>))>>)
  /\ depth = <<3>>

(***************************************************************************)
(* Claims about the shape predicates, checked under SpecView.              *)
(***************************************************************************)
\* a JSON object: neither an array, nor null, nor a scalar
IsJsonObject(v) == v.t = "object"

\* the shape described: a non-empty array all of whose elements are objects,
\* or an object with at least one key
DescribedNested(v) ==
  \/ /\ v.t = "array"
     /\ Len(v.c) > 0
     /\ \A i \in 1..Len(v.c) : IsJsonObject(v.c[i].v)
  \/ /\ IsJsonObject(v)
     /\ Len(v.c) > 0

\* C21 (as claimed): isNestedStructure holds of a value of the document iff it
\* is a non-empty array all of whose elements are objects (no arrays, no null,
\* no scalars) or an object with at least one key
C21_NestedStructure ==
  Rendered => \A p \in Places(data, <<>>) : isNestedStructure(p.v) = DescribedNested(p.v)

\* C22: canDisplayAsTable holds of the document iff it is an array or an
\* object, the empty ones included; for null and every scalar it fails and
\* the output section shows that the document cannot be displayed
C22_CanDisplay ==
  Rendered =>
    /\ canDisplayAsTable(data) = (data.t \in {"array", "object"})
    /\ (TheView.kind = "Placeholder") = (data.t \notin {"array", "object"})
\* the empty object rendered as a table
C22_Witness ==
  /\ Rendered
  /\ data = Obj(<<>>)
  /\ canDisplayAsTable(data)
  /\ TheView.kind = "StandardTable"

(***************************************************************************)
(* Claims about the collapse state: C26 is checked under SpecView, C27     *)
(* under SpecSession.                                                      *)
(***************************************************************************)
\* the collapsible tables of the rendered tree
CollapsibleTables == { n \in ViewNodes : n.kind = "CollapsibleTable" }

\* C26 (as claimed): two collapsible tables rendered for different arrays of
\* the document never have the same tableId
C26_UniqueIds ==
  Rendered =>
    \A n, m \in CollapsibleTables : n.path # m.path => n.tableId # m.tableId

\* C27: toggleTable(id) flips the membership of id and of no other
\* identifier, twice in a row it restores the set, and a table is collapsed
\* iff toggleTable was called an odd number of times with its identifier
C27_Toggle ==
  /\ \A id \in DOMAIN toggles \cup collapsedTables :
       (id \in collapsedTables) = (Toggled(id) % 2 = 1)
  /\ Rendered =>
       \A id \in CollapsibleIds(TheView) :
         /\ (id \in Flipped(collapsedTables, id)) = (id \notin collapsedTables)
         /\ \A other \in (collapsedTables \cup CollapsibleIds(TheView)) \ {id} :
              (other \in Flipped(collapsedTables, id)) = (other \in collapsedTables)
         /\ Flipped(Flipped(collapsedTables, id), id) = collapsedTables

\* one table was toggled twice and is expanded, another once and is collapsed
C27_Witness ==
  /\ Rendered
  /\ \E id \in CollapsibleIds(TheView) : Toggled(id) = 2 /\ id \notin collapsedTables
  /\ \E id \in CollapsibleIds(TheView) : Toggled(id) = 1 /\ id \in collapsedTables

(***************************************************************************)
(* Claims about the session, checked under SpecSession.                    *)
(***************************************************************************)
\* C23 (as claimed): when a different document is loaded (by an edit, Clear
\* or an upload) the collapsed set is empty afterwards, and every
\* collapsible table of the new document is rendered expanded
C23_ResetOnLoad ==
  [][jsonInput' # jsonInput =>
       /\ collapsedTables' = {}
       /\ \A n \in CollapsibleTables' : ~n.collapsed]_vars

\* C25 (as claimed): error is what parsing the current jsonInput gives (null
\* for a blank or valid text, the parser's message otherwise), and a valid
\* document is never displayed as "Invalid JSON"
C25_ErrorConsistent ==
  /\ error = parsedData(jsonInput, ParseText(jsonInput)).error
  /\ TheView = Placeholder("Invalid JSON") => ~ParseText(jsonInput).ok

\* a file that is JSON by its name or by its type
JsonByNameOrType(file) ==
  \/ EndsWith(file.name, <<46, 106, 115, 111, 110>>)
  \/ Includes(file.type, <<106, 115, 111, 110>>)
\* the i-th read in flight completes in this step
Completes(i) ==
  /\ Len(reads') = Len(reads) - 1
  /\ reads' = SubSeq(reads, 1, i - 1) \o SubSeq(reads, i + 1, Len(reads))
RejectedMessage == <<[text |-> "Please select a JSON file", at |-> 0]>>
ReadErrorMessage == <<[text |-> "Error reading file", at |-> 0]>>

\* C29: only files accepted by name or type are read; a read that
\* completes either sets jsonInput to the content, which parses, and clears
\* error, or leaves jsonInput as it is and sets error to the parser's
\* message for the content or to the read error; a rejected file leaves
\* jsonInput as it is; starting a read changes neither
C29_Upload ==
  [][/\ \A i \in 1..Len(reads') : JsonByNameOrType(reads'[i])
     /\ Len(reads') < Len(reads) =>
          \E i \in 1..Len(reads) :
            /\ Completes(i)
            /\ \/ /\ ParseText(reads[i].content).ok
                  /\ jsonInput' = reads[i].content
                  /\ error' = NoError
               \/ /\ ~ParseText(reads[i].content).ok
                  /\ jsonInput' = jsonInput
                  /\ error' = <<[text |-> "SyntaxError", at |-> ParseText(reads[i].content).next]>>
               \/ /\ jsonInput' = jsonInput
                  /\ error' = ReadErrorMessage
     /\ Len(reads') > Len(reads) => jsonInput' = jsonInput /\ error' = error
     /\ error' = RejectedMessage /\ error # RejectedMessage =>
          jsonInput' = jsonInput /\ reads' = reads]_vars

\* a read has completed with success: jsonInput is the content of a file,
\* with the white space around it that no edit types, no error is set and
\* the document is displayed as a table
C29_Witness ==
  /\ jsonInput \in Contents \ Texts
  /\ error = NoError
  /\ reads = NoReads
  /\ TheView.kind = "StandardTable"

(***************************************************************************)
(* Claims about the clicks, checked under SpecClicks.                      *)
(***************************************************************************)
\* C28 (as claimed): the indicator a copy sets is cleared by the timeout
\* of that same copy only, never by the timeout an earlier copy set
C28_OwnTimer ==
  [][(/\ clipboard # NoCopy
      /\ clipboard[1].copiedIndex # <<>>
      /\ clipboard'[1].copiedIndex = <<>>)
       => timers \ timers' = {clipboard[1].copy}]_vars

\* C24: collapsedTables changes only in a step in which toggleTable is
\* called; the steps that parse and render the document, copy a record,
\* fire a timeout or export a table leave it as it is
C24_OnlyToggle ==
  [][/\ collapsedTables' # collapsedTables =>
          \E id \in DOMAIN toggles' : toggles'[id] = Toggled(id) + 1
     /\ (toggles' = toggles
            /\ (view' # view \/ clipboard' # clipboard \/ timers' # timers \/ csv' # csv))
          => collapsedTables' = collapsedTables]_vars

\* a record was copied and a table exported while a table was collapsed
C24_Witness ==
  /\ Rendered
  /\ collapsedTables # {}
  /\ clipboard # NoCopy
  /\ csv # NoExport
====
